---- MODULE Spec2Model ----
(***************************************************************************)
(* Model of the SKPG graduate-employability dashboard                      *)
(* (src/pages/dashboard.py, the overview, and src/pages/fakulti.py, the    *)
(* PTj view).                                                              *)
(*                                                                         *)
(* A DataFrame is a record [cols, blocks]: cols is the set of column       *)
(* names, blocks the rows in order, run-length encoded: a block            *)
(* [r |-> row, n |-> k] stands for k consecutive equal rows.  A cell is    *)
(* NaN (missing) or <<v>> with v an integer code or a string.  A numeric   *)
(* column is int64 when no cell of it is missing and float64 otherwise,    *)
(* which decides what astype(str) yields.  Percentages rounded to one      *)
(* decimal are integers counting tenths (96.4 is 964); unrounded ratios    *)
(* are kept as fractions.                                                  *)
(***************************************************************************)
EXTENDS Integers, Sequences, FiniteSets, TLC

VARIABLES
    df,               \* the unified table loaded for the session (raw columns)
    available_years,  \* the years offered by the year widget, newest first
    page,             \* the script that ran last: "none", "dashboard", "fakulti"
    sel,              \* the widget selections of that run
    dash,             \* what the overview rendered in that run
    ptj,              \* what the PTj view rendered in that run
    files,            \* the data folder: the yearly spreadsheets and cache files
    DUCKDB_AVAILABLE, \* whether the converter could be imported
    cache_data        \* the st.cache_data memo of the two loaders of each page

vars == <<df, available_years, page, sel, dash, ptj, files, DUCKDB_AVAILABLE, cache_data>>

----------------------------------------------------------------------------
(* Cells and pandas' element-wise comparisons                              *)

NaN == <<>>

notna(c) == c /= NaN

\* Series == x : a missing cell equals nothing.
eq(c, x) == c /= NaN /\ c[1] = x

\* Series != x : the negation, so a missing cell differs from everything.
ne(c, x) == ~eq(c, x)

\* Series.isin(S) : a missing cell is in no list of values.
isin(c, S) == c /= NaN /\ c[1] \in S

\* Series >= x on a numeric column : False for a missing cell.
ge(c, x) == c /= NaN /\ c[1] >= x

----------------------------------------------------------------------------
(* DataFrames                                                              *)

RECURSIVE SumN(_)
SumN(bs) == IF bs = <<>> THEN 0 ELSE Head(bs).n + SumN(Tail(bs))

\* df[mask] : the rows whose mask is True, in order.
Rows(t, P(_)) == [cols |-> t.cols, blocks |-> SelectSeq(t.blocks, LAMBDA b : P(b.r))]

\* len(df), df.shape[0]
shape0(t) == SumN(t.blocks)

\* Variant: a frame that never counts as empty.
never_empty(t) == FALSE

\* df.empty
empty(t) == shape0(t) = 0

\* df[col].count(), df[col].notna().sum() : the non-missing cells of a column.
count(t, col) == SumN(SelectSeq(t.blocks, LAMBDA b : notna(b.r[col])))

\* (mask).sum() : the rows whose mask is True.
CountIf(t, P(_)) == SumN(SelectSeq(t.blocks, LAMBDA b : P(b.r)))

\* df[col].dropna().unique() : the distinct values in order of first appearance.
RECURSIVE UniqueFrom(_, _, _)
UniqueFrom(bs, col, seen) ==
    IF bs = <<>> THEN <<>>
    ELSE LET c == Head(bs).r[col] IN
         IF c = NaN \/ c[1] \in seen
         THEN UniqueFrom(Tail(bs), col, seen)
         ELSE <<c[1]>> \o UniqueFrom(Tail(bs), col, seen \cup {c[1]})

unique(t, col) == UniqueFrom(t.blocks, col, {})

Range(s) == {s[i] : i \in DOMAIN s}

\* A numeric column holding a missing cell is float64, otherwise int64.
IsFloat(t, col) == \E i \in DOMAIN t.blocks : t.blocks[i].r[col] = NaN

----------------------------------------------------------------------------
(* Rounding                                                                *)

\* The program's percentages are IEEE doubles: num / den is rounded to 53
\* significant bits, and so is each product after it.  A double is kept
\* here as [m, e], the value m / 2^e, m a natural number written in base
\* 256, the lowest digit first and the highest one not 0.  (The counts are
\* below 2^23, so no intermediate value passes 2^31.)
RECURSIVE LimbsOf(_)
LimbsOf(n) == IF n = 0 THEN <<>> ELSE <<n % 256>> \o LimbsOf(n \div 256)

\* a * n + carry for a natural number n > 0.
RECURSIVE MulLimbs(_, _, _)
MulLimbs(a, n, carry) ==
    IF a = <<>> THEN LimbsOf(carry)
    ELSE <<(Head(a) * n + carry) % 256>>
         \o MulLimbs(Tail(a), n, (Head(a) * n + carry) \div 256)

\* a + 1
RECURSIVE Inc(_)
Inc(a) ==
    IF a = <<>> THEN <<1>>
    ELSE IF Head(a) < 255 THEN <<Head(a) + 1>> \o Tail(a)
    ELSE <<0>> \o Inc(Tail(a))

\* a * 2^k
ShlLimbs(a, k) == [i \in 1..(k \div 8) |-> 0] \o MulLimbs(a, 2 ^ (k % 8), 0)

\* The digits of a without the zeros above its highest digit.
Canon(a) == SubSeq(a, 1, IF \E i \in DOMAIN a : a[i] /= 0
                         THEN CHOOSE i \in DOMAIN a :
                                  a[i] /= 0 /\ \A j \in DOMAIN a : j > i => a[j] = 0
                         ELSE 0)

\* The number of binary digits of a.
BitLen(a) ==
    IF a = <<>> THEN 0
    ELSE 8 * (Len(a) - 1)
         + CHOOSE k \in 1..8 : 2 ^ (k - 1) <= a[Len(a)] /\ a[Len(a)] < 2 ^ k

\* The binary digit of weight 2^i of a, and whether one below it is set.
Bit(a, i) == (a[i \div 8 + 1] \div 2 ^ (i % 8)) % 2
Below(a, i) == \/ a[i \div 8 + 1] % 2 ^ (i % 8) /= 0
               \/ \E j \in 1..(i \div 8) : a[j] /= 0

\* floor(a / 2^d)
ShrLimbs(a, d) ==
    LET t == SubSeq(a, d \div 8 + 1, Len(a))
        b == d % 8
    IN  Canon([i \in DOMAIN t |->
                 t[i] \div 2 ^ b
                 + (IF i < Len(t) THEN (t[i + 1] % 2 ^ b) * 2 ^ (8 - b) ELSE 0)])

\* -1, 0, 1 as a < b, a = b, a > b.
CmpLimbs(a, b) ==
    IF Len(a) /= Len(b) THEN (IF Len(a) < Len(b) THEN -1 ELSE 1)
    ELSE LET D == {i \in 1..Len(a) : a[i] /= b[i]}
         IN  IF D = {} THEN 0
             ELSE LET i == CHOOSE i \in D : \A j \in D : j <= i
                  IN  IF a[i] > b[i] THEN 1 ELSE -1

\* Rounding m / 2^e to a double: to the nearest of 53 bits, a tie to the
\* even one.
RoundLimbs(m, e) ==
    IF BitLen(m) <= 53 THEN [m |-> m, e |-> e]
    ELSE LET d    == BitLen(m) - 53
             kept == ShrLimbs(m, d)
             up   == Bit(m, d - 1) = 1 /\ (Below(m, d - 1) \/ kept[1] % 2 = 1)
         IN  [m |-> IF up THEN Inc(kept) ELSE kept, e |-> e - d]

\* Quotient and remainder of a by the natural number den, from the highest
\* digit down.
RECURSIVE DivLimbs(_, _)
DivLimbs(a, den) ==
    IF a = <<>> THEN [q |-> <<>>, r |-> 0]
    ELSE LET hi  == DivLimbs(Tail(a), den)
             cur == hi.r * 256 + Head(a)
         IN  [q |-> <<cur \div den>> \o hi.q, r |-> cur % den]

\* The quotient num / den of two positive integers as a double: with
\* 2^k <= num / den < 2^(k + 1), the 53 bits of floor(num * 2^(52 - k) / den)
\* and the rounding the remainder decides.
truediv(num, den) ==
    LET k0 == BitLen(LimbsOf(num)) - BitLen(LimbsOf(den))
        k  == IF (IF k0 >= 0 THEN num >= den * 2 ^ k0 ELSE num * 2 ^ (0 - k0) >= den)
              THEN k0 ELSE k0 - 1
        d  == DivLimbs(ShlLimbs(LimbsOf(num), 52 - k), den)
        q  == Canon(d.q)
        up == 2 * d.r > den \/ (2 * d.r = den /\ q[1] % 2 = 1)
    IN  [m |-> IF up THEN Inc(q) ELSE q, e |-> 52 - k]

\* x * n for a double x and a natural number n > 0.
mul(x, n) == RoundLimbs(MulLimbs(x.m, n, 0), x.e)

\* num / den * 100 as the program computes it.
percent(num, den) == mul(truediv(num, den), 100)

\* Rounding the double x to a whole number of units of 1 / (2 * half), given
\* that x lies within a unit of (2 * q + 1) / (2 * half): q when x is below
\* that midpoint, q + 1 when it is above, the even one of the two on it.
Side(x, q, half) ==
    LET c == CmpLimbs(MulLimbs(x.m, 2 * half, 0), ShlLimbs(LimbsOf(2 * q + 1), x.e))
    IN  IF c < 0 THEN q
        ELSE IF c > 0 THEN q + 1
        ELSE IF q % 2 = 0 THEN q ELSE q + 1

\* The nearest whole number to scale * num / den for num >= 0 and den > 0,
\* when that quotient is not halfway between two whole numbers.  Off a
\* midpoint the double and the exact quotient round alike: the error of the
\* double is far smaller than the distance, at least 1 / (2 * den), of the
\* quotient to the nearest midpoint.
Midway(scale, num, den) == 2 * ((scale * num) % den) = den

Nearest(scale, num, den) ==
    IF 2 * ((scale * num) % den) > den
    THEN (scale * num) \div den + 1
    ELSE (scale * num) \div den

\* round(x, 1) of x = num / den * 100, in tenths.  The counts are
\* numpy.int64 (Series.count()), so x is a numpy.float64, whose round
\* is numpy's: rint(x * 10) / 10.
Round1(num, den) ==
    IF Midway(1000, num, den)
    THEN Side(mul(percent(num, den), 10), (1000 * num) \div den, 1)
    ELSE Nearest(1000, num, den)

\* f"{x:.1f}" of x = num / den * 100, in tenths: the tenth nearest to the
\* double itself.
Format1(num, den) ==
    IF Midway(1000, num, den)
    THEN Side(percent(num, den), (1000 * num) \div den, 10)
    ELSE Nearest(1000, num, den)

----------------------------------------------------------------------------
(* Lookup tables                                                           *)

warganegara_map == ("1" :> "Warganegara") @@ ("2" :> "Bukan Warganegara")

\* status_kerja_map of the overview: "-2" has no entry.
status_kerja_map ==
    ("0" :> "Tiada Maklumat") @@ ("1" :> "Bekerja") @@
    ("2" :> "Melanjutkan Pengajian") @@ ("3" :> "Meningkatkan kemahiran") @@
    ("4" :> "Menunggu penempatan pekerjaan") @@ ("5" :> "Belum Bekerja")

\* status_kerja_map of the PTj view: "-2" is "Tiada Maklumat" too.
ptj_status_kerja_map == ("-2" :> "Tiada Maklumat") @@ status_kerja_map

status_penyertaan_map ==
    ("1" :> "Sertai") @@ ("2" :> "Tidak/Belum Sertai") @@ ("3" :> "Tidak Lengkap")

sebab_tidak_bekerja_map ==
    ("1" :> "Melanjutkan Pengajian") @@ ("5" :> "Sedang Mencari Pekerjaan") @@
    ("7" :> "Tanggungjawab Terhadap Keluarga") @@
    ("8" :> "Kurang Keyakinan Diri Untuk Memasuki Dunia Pekerjaan") @@
    ("10" :> "Memilih Untuk Tidak Bekerja") @@
    ("11" :> "Tidak Berminat Untuk Bekerja") @@
    ("13" :> "Menunggu Penempatan Pekerjaan (Telah Menerima Tawaran Pekerjaan)") @@
    ("14" :> "Mengikut Kursus Jangka Pendek") @@
    ("15" :> "Berehat/Melancong/Bercuti") @@
    ("17" :> "Menunggu Keputusan/Tawaran Melanjutkan Pengajian") @@
    ("18" :> "Enggan Berpindah Ke Tempat Lain") @@
    ("20" :> "Sebab Hilang Upaya") @@
    ("21" :> "Tidak Dibenarkan Untuk Bekerja Oleh Keluarga") @@
    ("28" :> "Tidak Dibenarkan Untuk Bekerja Oleh Undang-Undang") @@
    ("30" :> "Bersara Pilihan/Wajib") @@
    ("31" :> "Mengikuti Program Inkubasi Usahawan") @@
    ("32" :> "Sebab Kesihatan (Termasuk Baru Bersalin)") @@
    ("33" :> "Sedang Mengikuti Kursus Peningkatan Kemahiran") @@
    ("34" :> "Pekerjaan yang Ditawarkan Tidak Bersesuaian")

peringkat_pengajian_map ==
    ("1" :> "Diploma") @@ ("2" :> "Diploma Pancasiswazah") @@ ("3" :> "PhD") @@
    ("4" :> "Sarjana Muda") @@ ("5" :> "Sarjana") @@ ("63" :> "Diploma")

fakulti_map ==
    ("Fakulti Sains" :> "FS") @@
    ("Fakulti Sains Komputer Dan Teknologi Maklumat" :> "FSKTM") @@
    ("Fakulti Kejuruteraan" :> "FK") @@
    ("Fakulti Perubatan" :> "FOM") @@
    ("Fakulti Farmasi" :> "FF") @@
    ("Fakulti Undang-Undang" :> "FUU") @@
    ("Fakulti Ekonomi Dan Pentadbiran" :> "FPE") @@
    ("Fakulti Pendidikan" :> "EDU") @@
    ("Fakulti Bahasa Dan Linguistik" :> "FBL") @@
    ("Fakulti Alam Bina" :> "FAB") @@
    ("Akademi Pengajian Islam" :> "API") @@
    ("Akademi Pengajian Melayu" :> "APM") @@
    ("Fakulti Sastera Dan Sains Sosial" :> "FSSS") @@
    ("Fakulti Seni Kreatif" :> "FSK") @@
    ("Pusat Kebudayaan" :> "FSK") @@
    ("Fakulti Pergigian" :> "FOD") @@
    ("Fakulti Perniagaan Dan Ekonomi" :> "FPE") @@
    ("Institut Asia Eropah" :> "AEI") @@
    ("Institut Pengajian Termaju" :> "IAS") @@
    ("Int Antarabangsa Polisi Awam Dan Pengurusan (Inpuma)" :> "INPUMA") @@
    ("Fakulti Sukan Dan Sains Eksesais" :> "FSSE") @@
    ("Pusat Sukan Dan Sains Eksesais" :> "FSSE") @@
    ("Pusat Sukan & Sains Eksesais" :> "FSSE") @@
    ("Fakulti Sukan & Sains Eksesais" :> "FSSE") @@
    ("University Of Malaya Centre For Continuing Education" :> "UMCCED") @@
    ("Umcced" :> "UMCCED")

status_pekerjaan_map ==
    ("-2" :> "Tidak Berkenaan") @@ ("1" :> "Bekerja") @@
    ("2" :> "Belum/Tidak Bekerja") @@ ("4" :> "Bekerja Sepenuh Masa") @@
    ("7" :> "Melanjutkan Pengajian") @@
    ("52" :> "Bekerja (Mempunyai Majikan/Bekerja Sendiri/Usahawan/Freelance)") @@
    ("90" :> "Menganggur") @@ ("91" :> "Penganggur Aktif") @@
    ("92" :> "Penganggur Tidak Aktif") @@ ("93" :> "Luar Tenaga Buruh")

taraf_pekerjaan_map ==
    ("-2" :> "Tidak Berkenaan") @@ ("4" :> "Bekerja Sendiri") @@
    ("5" :> "Bekerja dengan Keluarga") @@ ("6" :> "Majikan") @@
    ("7" :> "Pekerja Kerajaan") @@ ("8" :> "Pekerja Swasta (Termasuk NGO)") @@
    ("9" :> "Pekerja (Kerajaan/Swasta/Pekerja Keluarga dengan upah/gaji)") @@
    ("10" :> "Pekerja (Kerajaan/Swasta)") @@ ("40" :> "Freelance") @@
    ("46" :> "Usahawan") @@ ("47" :> "Bekerja Sendiri (e+p-hailing)") @@
    ("51" :> "Bekerja dengan Keluarga (upah/gaji)") @@
    ("52" :> "Bekerja dengan Keluarga (tiada upah/gaji)")

\* taraf_pekerjaan_map of the PTj view: two of its labels have a double space.
ptj_taraf_pekerjaan_map ==
    ("5" :> "Bekerja  dengan Keluarga") @@
    ("51" :> "Bekerja  dengan Keluarga (upah/gaji)") @@ taraf_pekerjaan_map

\* kumpulan_pekerjaan_map, of the PTj view only.
kumpulan_pekerjaan_map ==
    ("-2" :> "Tidak Berkenaan") @@ ("1" :> "Pengurus") @@ ("2" :> "Profesional") @@
    ("3" :> "Juruteknik dan Profesional Bersekutu") @@
    ("4" :> "Pekerja Sokongan Perkeranian") @@
    ("5" :> "Pekerja Perkhidmatan dan Jualan") @@
    ("6" :> "Pekerja Mahir Pertanian, Perhutanan, Penternakan, dan Perikanan") @@
    ("7" :> "Pekerja Kemahiran dan Pekerja Pertukangan yang Berkaitan") @@
    ("8" :> "Operator Mesin dan Loji, dan Pemasang") @@ ("9" :> "Pekerja Asas") @@
    ("10" :> "Angkatan Tentera")

sektor_pekerjaan_map ==
    ("-2" :> "Tidak Berkenaan") @@ ("2" :> "Badan Berkanun") @@
    ("3" :> "Syarikat Multinasional") @@ ("4" :> "Syarikat Tempatan") @@
    ("7" :> "Syarikat Berkaitan Kerajaan (GLC)") @@
    ("8" :> "Perutubuhan Bukan Kerajaan (NGO)") @@
    ("9" :> "Kerajaan Persekutuan") @@ ("10" :> "Kerajaan Negeri/Tempatan") @@
    ("11" :> "Ekonomi Gig")

bekerja_dalam_bidang_map ==
    ("-2" :> "Tidak Berkenaan") @@ ("-1" :> "Tidak Dinyatakan") @@
    ("1" :> "Ya") @@ ("2" :> "Tidak")

gaji_kumpulan ==
    ("-2" :> "Tidak Berkaitan") @@ ("1" :> "RM1,000 dan ke bawah") @@
    ("2" :> "RM1,001 - RM1,500") @@ ("4" :> "RM1,501 - RM2,000") @@
    ("5" :> "RM2,001 - RM2,500") @@ ("6" :> "RM2,501 - RM3,000") @@
    ("7" :> "RM3,001 - RM3,500") @@ ("8" :> "RM3,501 - RM4,000") @@
    ("11" :> "RM4,001 - RM5,001") @@ ("12" :> "RM5,001 - RM10,001") @@
    ("13" :> "RM5,001 dan ke atas") @@ ("14" :> "Lebih daripada RM10,000") @@
    ("15" :> "RM5,001 - RM8,500") @@ ("16" :> "RM8,501 dan ke atas")

\* The canonical faculty list every per-faculty breakdown iterates.
all_fakulti ==
    << "API", "APM", "FAB", "FBL", "FF", "FK", "EDU", "FOD", "FPE", "FOM",
       "FS", "FSKTM", "FSSS", "FSK", "FSSE", "FUU", "AEI", "IAS", "INPUMA", "UMCCED" >>

----------------------------------------------------------------------------
(* Title-casing and label derivation                                       *)

\* The columns of the source files the model carries.
StrCols == {"SKPG_Tahun", "e_fakulti", "e_program"}
NumCols == {"e_warganegara", "e_40", "e_peringkat", "e_status", "e_54",
            "e_statusPenyertaan", "e_43", "e_44_kumpulan", "e_41_a", "e_45", "e_50_b"}
RawCols == StrCols \cup NumCols

\* str.title() on the strings the model uses that are not title-cased already.
TitleTable ==
    ("AKADEMI PENGAJIAN ISLAM" :> "Akademi Pengajian Islam") @@
    ("UMCCED" :> "Umcced") @@
    ("fakulti kejuruteraan" :> "Fakulti Kejuruteraan")

title(c) == IF c /= NaN /\ c[1] \in DOMAIN TitleTable THEN <<TitleTable[c[1]]>> ELSE c

\* for col in df.select_dtypes(include="object").columns: df[col] = df[col].str.title()
TitleCase(t) ==
    [cols   |-> t.cols,
     blocks |-> [i \in DOMAIN t.blocks |->
                   [r |-> [c \in DOMAIN t.blocks[i].r |->
                             IF c \in StrCols \cap t.cols
                             THEN title(t.blocks[i].r[c]) ELSE t.blocks[i].r[c]],
                    n |-> t.blocks[i].n]]]

\* Series.astype(str) of one cell: a float64 column prints 5 as "5.0", a
\* missing cell prints "nan".
astype_str(t, col, c) ==
    IF c = NaN THEN "nan"
    ELSE IF col \in StrCols THEN c[1]
    ELSE IF IsFloat(t, col) THEN ToString(c[1]) \o ".0"
    ELSE ToString(c[1])

\* Series.map(dict): the entry of the key, missing when the key has none.
map(m, key) == IF key \in DOMAIN m THEN <<m[key]>> ELSE NaN

\* df[col].astype(str).map(m) for one row; df.get(col, empty) of the overview
\* gives an all-missing label column when the raw column is absent.
label(t, col, m, r) ==
    IF col \in t.cols THEN map(m, astype_str(t, col, r[col])) ELSE NaN

\* Variant: a derivation that maps the work-status label column once the
\* table has one, in place of the raw code: no label is a key of the map.
DashLabels_relabel(t, r) ==
    [e_warganegara_label      |-> label(t, "e_warganegara", warganegara_map, r),
     e_40_label               |-> label(t, "e_40", status_pekerjaan_map, r),
     e_status_label           |-> IF "e_status_label" \in t.cols
                                  THEN NaN
                                  ELSE label(t, "e_status", status_kerja_map, r),
     e_statusPenyertaan_label |-> label(t, "e_statusPenyertaan", status_penyertaan_map, r),
     e_54_label               |-> label(t, "e_54", sebab_tidak_bekerja_map, r),
     e_peringkat_label        |-> label(t, "e_peringkat", peringkat_pengajian_map, r),
     e_fakulti_label          |-> label(t, "e_fakulti", fakulti_map, r),
     e_43_label               |-> label(t, "e_43", taraf_pekerjaan_map, r),
     e_45_label               |-> label(t, "e_45", sektor_pekerjaan_map, r),
     e_50_b_label             |-> label(t, "e_50_b", bekerja_dalam_bidang_map, r),
     e_44_kumpulan_label      |-> label(t, "e_44_kumpulan", gaji_kumpulan, r)]

DashLabels(t, r) ==
    [e_warganegara_label      |-> label(t, "e_warganegara", warganegara_map, r),
     e_40_label               |-> label(t, "e_40", status_pekerjaan_map, r),
     e_status_label           |-> label(t, "e_status", status_kerja_map, r),
     e_statusPenyertaan_label |-> label(t, "e_statusPenyertaan", status_penyertaan_map, r),
     e_54_label               |-> label(t, "e_54", sebab_tidak_bekerja_map, r),
     e_peringkat_label        |-> label(t, "e_peringkat", peringkat_pengajian_map, r),
     e_fakulti_label          |-> label(t, "e_fakulti", fakulti_map, r),
     e_43_label               |-> label(t, "e_43", taraf_pekerjaan_map, r),
     e_45_label               |-> label(t, "e_45", sektor_pekerjaan_map, r),
     e_50_b_label             |-> label(t, "e_50_b", bekerja_dalam_bidang_map, r),
     e_44_kumpulan_label      |-> label(t, "e_44_kumpulan", gaji_kumpulan, r)]

PtjLabels(t, r) ==
    [e_warganegara_label      |-> label(t, "e_warganegara", warganegara_map, r),
     e_40_label               |-> label(t, "e_40", status_pekerjaan_map, r),
     e_status_label           |-> label(t, "e_status", ptj_status_kerja_map, r),
     e_statusPenyertaan_label |-> label(t, "e_statusPenyertaan", status_penyertaan_map, r),
     e_54_label               |-> label(t, "e_54", sebab_tidak_bekerja_map, r),
     e_peringkat_label        |-> label(t, "e_peringkat", peringkat_pengajian_map, r),
     e_fakulti_label          |-> label(t, "e_fakulti", fakulti_map, r),
     e_43_label               |-> label(t, "e_43", ptj_taraf_pekerjaan_map, r),
     e_45_label               |-> label(t, "e_45", sektor_pekerjaan_map, r),
     e_41_a_label             |-> label(t, "e_41_a", kumpulan_pekerjaan_map, r),
     e_50_b_label             |-> label(t, "e_50_b", bekerja_dalam_bidang_map, r)]

\* The raw columns the PTj view's derivation reads with df[col], which
\* raises KeyError on an absent column; the overview reads them with
\* df.get(col, <empty series>).
PtjRequired ==
    {"e_warganegara", "e_40", "e_status", "e_statusPenyertaan", "e_54", "e_peringkat",
     "e_fakulti", "e_43", "e_45", "e_41_a", "e_50_b"}

\* The label-derivation step: every label column is added, no raw one touched.
WithLabels(t, L(_, _)) ==
    [cols   |-> t.cols \cup DOMAIN L(t, [c \in RawCols |-> NaN]),
     blocks |-> [i \in DOMAIN t.blocks |->
                   [r |-> L(t, t.blocks[i].r) @@ t.blocks[i].r, n |-> t.blocks[i].n]]]

\* The table each script works on: title-cased, then labelled.
dash_df(t) == WithLabels(TitleCase(t), DashLabels)
ptj_df(t)  == WithLabels(TitleCase(t), PtjLabels)

----------------------------------------------------------------------------
(* Shared arithmetic of the metric functions                               *)

\* An unrounded percentage num / den * 100, kept exact; 0 is 0 / 1.
Pct(num, den) == [num |-> num, den |-> den]
Zero == Pct(0, 1)

\* a > b on two such percentages (den > 0).
gt(a, b) == a.num * b.den > b.num * a.den

\* f"{x:.1f}" and round(x, 1) of such a percentage, in tenths (0 is the
\* int 0 of the else branch, which both leave 0).
fmt1(x) == Format1(x.num, x.den)
round1(x) == Round1(x.num, x.den)

\* sorted(): the order of str on the year tags and on the faculty short codes.
\* YearsAsc lists every tag a loaded table can carry: the year of a file name,
\* the year a file's own SKPG_Tahun column holds, and that year read from a
\* float column ("2023.0").
YearsAsc == << "2022", "2022.0", "2023", "2023.0", "2024", "2024.0" >>
AlphaFakulti ==
    << "AEI", "API", "APM", "EDU", "FAB", "FBL", "FF", "FK", "FOD", "FOM",
       "FPE", "FS", "FSK", "FSKTM", "FSSE", "FSSS", "FUU", "IAS", "INPUMA", "UMCCED" >>

sorted(S, order) ==
    IF S \subseteq Range(order)
    THEN SelectSeq(order, LAMBDA x : x \in S)
    ELSE CHOOSE unordered \in {} : TRUE

\* all(col in df.columns for col in required_cols)
has_cols(t, required_cols) == required_cols \subseteq t.cols

\* The three counts of the GE formula and its value, as every GE site
\* computes them: count() leaves the rows with a missing e_54 out.
bekerja_of(t)       == count(Rows(t, LAMBDA r : eq(r.e_status_label, "Bekerja")), "e_status_label")
tidak_bekerja_of(t) == count(Rows(t, LAMBDA r : eq(r.e_status_label, "Belum Bekerja")), "e_status_label")
\* Variant: the exclusion count with size() in place of count(), which takes
\* the rows with a missing e_54 in.
luar_tenaga_buruh_size(t) ==
    CountIf(t, LAMBDA r : eq(r.e_status, 5) /\ ne(r.e_54, 5) /\ ne(r.e_54, 34))
luar_tenaga_buruh_of(t) ==
    count(Rows(t, LAMBDA r : eq(r.e_status, 5) /\ ne(r.e_54, 5) /\ ne(r.e_54, 34)), "e_54")
total_ge_of(t) == bekerja_of(t) + tidak_bekerja_of(t) - luar_tenaga_buruh_of(t)

\* Variant: GE without the zero guard's 0, a slice with total_ge <= 0 read as
\* fully employed.
percent_ge_unguarded(t) ==
    IF total_ge_of(t) > 0 THEN Pct(bekerja_of(t), total_ge_of(t)) ELSE Pct(1, 1)

\* (bekerja / total_ge * 100) if total_ge > 0 else 0
percent_ge_of(t) ==
    IF total_ge_of(t) > 0 THEN Pct(bekerja_of(t), total_ge_of(t)) ELSE Zero

\* (responden - belum_bekerja) / responden * 100 if responden > 0 else 0
responden_of(t) == count(Rows(t, LAMBDA r : ne(r.e_status_label, "Tiada Maklumat")), "e_status_label")
gm_of(t) ==
    IF responden_of(t) > 0
    THEN Pct(responden_of(t) - tidak_bekerja_of(t), responden_of(t)) ELSE Zero

fak_df(t, fakulti) == Rows(t, LAMBDA r : eq(r.e_fakulti_label, fakulti))

----------------------------------------------------------------------------
(* The overview (dashboard.py): filter and metric functions                *)

warganegara_label_list == << warganegara_map["1"], warganegara_map["2"] >>

\* df_filtered_year: an empty year selection stands for available_years,
\* "Semua" for both citizenship labels.
df_filtered_year(t, avail, selected_years, selected_warganegara) ==
    LET years == IF selected_years /= {} THEN selected_years ELSE Range(avail)
        warga == IF selected_warganegara /= "Semua"
                 THEN {selected_warganegara} ELSE Range(warganegara_label_list)
    IN  Rows(t, LAMBDA r : astype_str(t, "SKPG_Tahun", r.SKPG_Tahun) \in years
                           /\ isin(r.e_warganegara_label, warga))

\* st.warning(...) and return: the function shows no metric.
Warning == [kind |-> "warning"]

\* df[col] on an absent column, or a pivot/concat of nothing: the function
\* raises and the script run ends there.
KeyError == [kind |-> "KeyError"]

\* px.bar(df_chart, x="Fakulti") on a frame built from no record: plotly finds
\* no such column and raises.
ValueError == [kind |-> "ValueError"]

graduate_employability_ikut_ptj(t) ==
    IF ~has_cols(t, {"e_status_label", "e_status", "e_54", "e_fakulti_label"})
    THEN Warning
    ELSE [kind    |-> "chart",
          records |-> [i \in DOMAIN all_fakulti |->
                         [Fakulti |-> all_fakulti[i],
                          GE      |-> round1(percent_ge_of(fak_df(t, all_fakulti[i]))),
                          GM      |-> round1(gm_of(fak_df(t, all_fakulti[i])))]]]

kadar_respons_ikut_ptj(t) ==
    IF ~has_cols(t, {"e_statusPenyertaan", "e_fakulti_label"})
    THEN Warning
    ELSE [kind    |-> "chart",
          records |-> [i \in DOMAIN all_fakulti |->
            LET f      == fak_df(t, all_fakulti[i])
                total  == count(Rows(f, LAMBDA r : ne(r.e_statusPenyertaan, -2)), "e_statusPenyertaan")
                respon == count(Rows(f, LAMBDA r : eq(r.e_statusPenyertaan, 1)), "e_statusPenyertaan")
            IN  [Fakulti |-> all_fakulti[i],
                 Kadar   |-> IF total > 0 THEN Round1(respon, total) ELSE 0]]]

\* ge_gm_line_tahun: one point per year and study level that has rows, its
\* GM rounded; with no group the melt of the empty frame raises.
ge_gm_line_tahun(t) ==
    IF ~has_cols(t, {"SKPG_Tahun", "e_peringkat_label", "e_status_label", "e_status", "e_54"})
    THEN Warning
    ELSE LET keys == {<<b.r.SKPG_Tahun[1], b.r.e_peringkat_label[1]>> :
                        b \in {x \in Range(t.blocks) :
                                 notna(x.r.SKPG_Tahun) /\ notna(x.r.e_peringkat_label)}}
         IN  IF keys = {} THEN KeyError ELSE
             [kind |-> "chart",
              gm   |-> [k \in keys |->
                          round1(gm_of(Rows(t, LAMBDA r : eq(r.SKPG_Tahun, k[1])
                                                        /\ eq(r.e_peringkat_label, k[2]))))]]

\* for (tahun, peringkat), df_group in df.groupby([...]): the groups that
\* have rows, each with its rounded GM; the pivot shows nothing elsewhere.
table_gm_tahun(t) ==
    IF ~has_cols(t, {"SKPG_Tahun", "e_peringkat_label", "e_status_label", "e_status", "e_54"})
    THEN Warning
    ELSE LET keys == {<<b.r.SKPG_Tahun[1], b.r.e_peringkat_label[1]>> :
                        b \in {x \in Range(t.blocks) :
                                 notna(x.r.SKPG_Tahun) /\ notna(x.r.e_peringkat_label)}}
         IN  IF keys = {} THEN KeyError ELSE
             [kind |-> "table",
              gm   |-> [k \in keys |->
                          round1(gm_of(Rows(t, LAMBDA r : eq(r.SKPG_Tahun, k[1])
                                                        /\ eq(r.e_peringkat_label, k[2]))))]]

\* ge_gm_keseluruhan reads the module-level df, not the table it is given,
\* apart from the column check.
ge_gm_keseluruhan(filtered, t) ==
    IF ~has_cols(filtered, {"e_status_label", "e_status", "e_54", "SKPG_Tahun",
                            "e_statusPenyertaan_label"})
    THEN Warning
    ELSE IF "e_statusPenyertaan" \notin t.cols THEN KeyError
    ELSE LET tahun_list == sorted(Range(unique(t, "SKPG_Tahun")), YearsAsc)
         IN  [kind    |-> "chart",
              records |-> [i \in DOMAIN tahun_list |->
                LET thn_df == Rows(t, LAMBDA r : eq(r.SKPG_Tahun, tahun_list[i]))
                    total_responden == count(thn_df, "e_statusPenyertaan")
                    total_lengkap == count(Rows(thn_df, LAMBDA r : eq(r.e_statusPenyertaan, 1)),
                                           "e_statusPenyertaan")
                IN  [Tahun |-> tahun_list[i],
                     GE    |-> round1(percent_ge_of(thn_df)),
                     GM    |-> round1(gm_of(thn_df)),
                     Kadar |-> IF total_responden > 0
                               THEN Round1(total_lengkap, total_responden) ELSE 0]]]

\* bekerja_dalam_bidang_ikut_ptj: for each canonical faculty that has rows
\* other than "Tidak Berkenaan", the share of each label among those rows
\* (a row with no label is in the total and has no bar); the faculties with
\* no such row are skipped.
bekerja_dalam_bidang_ikut_ptj(t) ==
    IF ~has_cols(t, {"e_50_b_label", "e_fakulti_label"}) THEN Warning
    ELSE LET df_valid == Rows(t, LAMBDA r : ne(r.e_50_b_label, "Tidak Berkenaan"))
             shown    == SelectSeq(all_fakulti,
                                   LAMBDA f : count(fak_df(df_valid, f), "e_50_b_label") > 0)
         IN  IF shown = <<>> THEN ValueError ELSE
             [kind    |-> "chart",
              records |-> [i \in DOMAIN shown |->
                 LET f == fak_df(df_valid, shown[i])
                 IN  [Fakulti |-> shown[i],
                      Kadar   |-> [st \in Range(unique(f, "e_50_b_label")) |->
                                     Pct(CountIf(f, LAMBDA r : eq(r.e_50_b_label, st)),
                                         shape0(f))]]]]

\* Variant: no row left out of the skill denominator.
kerja_df_all(f) == f

\* kerja_df = fak_df[fak_df["e_41_a"] != -2]
kerja_df_of(f) == Rows(f, LAMBDA r : ne(r.e_41_a, -2))

kemahiran_kerja(t) ==
    IF "e_41_a" \notin t.cols THEN KeyError ELSE
    [kind    |-> "chart",
     records |-> [i \in DOMAIN all_fakulti |->
        LET kerja_df     == kerja_df_of(fak_df(t, all_fakulti[i]))
            total_kerja  == count(kerja_df, "e_41_a")
            mahir        == count(Rows(kerja_df, LAMBDA r : isin(r.e_41_a, {1, 2, 3})), "e_41_a")
            separa_mahir == count(Rows(kerja_df, LAMBDA r : isin(r.e_41_a, {4, 5, 6, 7, 8, 10})), "e_41_a")
            rendah       == count(Rows(kerja_df, LAMBDA r : isin(r.e_41_a, {9})), "e_41_a")
        IN  IF total_kerja = 0
            THEN [Fakulti |-> all_fakulti[i], Mahir |-> 0, SeparaMahir |-> 0, Rendah |-> 0]
            ELSE [Fakulti     |-> all_fakulti[i],
                  Mahir       |-> Round1(mahir, total_kerja),
                  SeparaMahir |-> Round1(separa_mahir, total_kerja),
                  Rendah      |-> Round1(rendah, total_kerja)]]]

\* The four salary bands, pd.cut(bins=[0, 4, 7, 8, inf], right=True):
\* (0, 4], (4, 7], (7, 8], (8, inf); a value in no interval gets no band.
cut(v) ==
    IF 0 < v /\ v <= 4 THEN 1
    ELSE IF 4 < v /\ v <= 7 THEN 2
    ELSE IF 7 < v /\ v <= 8 THEN 3
    ELSE IF 8 < v THEN 4
    ELSE 0

Bands == 1 .. 4

\* gaji_ikut_kumpulan_donut_phd / _master / _degree / _diploma, which differ
\* in the study level alone.
gaji_ikut_kumpulan_donut(t, peringkat) ==
    LET donut_df      == Rows(t, LAMBDA r : eq(r.e_peringkat_label, peringkat))
        kumpulan_gaji == Rows(donut_df, LAMBDA r : notna(r.e_44_kumpulan) /\ ne(r.e_44_kumpulan, -2))
    IN  IF "e_44_kumpulan" \notin donut_df.cols \/ empty(donut_df) THEN Warning
        ELSE IF empty(kumpulan_gaji) THEN Warning
        ELSE [kind   |-> "pie",
              counts |-> [b \in Bands |->
                            CountIf(kumpulan_gaji, LAMBDA r : cut(r.e_44_kumpulan[1]) = b)]]

\* The faculties with rows, as groupby("e_fakulti_label") iterates them:
\* sorted, rows with a missing label in no group.
groupby_fakulti(t) == sorted(Range(unique(t, "e_fakulti_label")), AlphaFakulti)

\* The first record holding the largest (smallest) value: idxmax(), max(), min().
\* Variant: the last record holding the largest value.
last_max(recs) ==
    recs[CHOOSE i \in DOMAIN recs :
           /\ \A j \in DOMAIN recs : ~gt(recs[j].v, recs[i].v)
           /\ \A j \in i + 1 .. Len(recs) : gt(recs[i].v, recs[j].v)]
first_max(recs) ==
    recs[CHOOSE i \in DOMAIN recs :
           /\ \A j \in DOMAIN recs : ~gt(recs[j].v, recs[i].v)
           /\ \A j \in 1 .. i - 1 : gt(recs[i].v, recs[j].v)]
first_min(recs) ==
    recs[CHOOSE i \in DOMAIN recs :
           /\ \A j \in DOMAIN recs : ~gt(recs[i].v, recs[j].v)
           /\ \A j \in 1 .. i - 1 : gt(recs[j].v, recs[i].v)]

\* group.size() - (x == "Belum Bekerja").sum(), over group.size(), per faculty
\* of valid_df: size() counts the rows with a missing status label too.
gm_per_faculty(valid_df) ==
    LET g == groupby_fakulti(valid_df)
    IN  [i \in DOMAIN g |->
           LET f == fak_df(valid_df, g[i])
           IN  [f |-> g[i],
                v |-> Pct(shape0(f) - CountIf(f, LAMBDA r : eq(r.e_status_label, "Belum Bekerja")),
                          shape0(f))]]

fakulti_gm_tertinggi(t) ==
    LET valid_df == Rows(t, LAMBDA r : ne(r.e_status_label, "Tiada Maklumat"))
    IN  IF empty(valid_df) \/ "e_fakulti_label" \notin valid_df.cols THEN Warning
        ELSE IF gm_per_faculty(valid_df) = <<>> THEN Warning
        ELSE [kind  |-> "metric",
              value |-> first_max(gm_per_faculty(valid_df)).f,
              delta |-> fmt1(first_max(gm_per_faculty(valid_df)).v)]

\* The per-faculty GE of fakulti_ge_tertinggi, in order of first appearance.
ge_records(t) ==
    LET fs == unique(t, "e_fakulti_label")
    IN  [i \in DOMAIN fs |-> [f |-> fs[i], v |-> percent_ge_of(fak_df(t, fs[i]))]]

fakulti_ge_tertinggi(t) ==
    IF empty(t) \/ "e_fakulti_label" \notin t.cols THEN Warning
    ELSE IF ~has_cols(t, {"e_status_label", "e_status", "e_54"}) \/ ge_records(t) = <<>>
    THEN KeyError
    ELSE [kind  |-> "metric",
          value |-> first_max(ge_records(t)).f,
          delta |-> fmt1(first_max(ge_records(t)).v)]

fakulti_gm_atas_overall(t) ==
    LET valid_df   == Rows(t, LAMBDA r : ne(r.e_status_label, "Tiada Maklumat"))
        total_responden     == shape0(valid_df)
        total_belum_bekerja == CountIf(valid_df, LAMBDA r : eq(r.e_status_label, "Belum Bekerja"))
        overall_gm == IF total_responden > 0
                      THEN Pct(total_responden - total_belum_bekerja, total_responden) ELSE Zero
        per        == gm_per_faculty(valid_df)
    IN  IF empty(valid_df) \/ "e_fakulti_label" \notin valid_df.cols THEN Warning
        ELSE [kind  |-> "metric",
              value |-> Cardinality({i \in DOMAIN per : gt(per[i].v, overall_gm)}),
              delta |-> fmt1(overall_gm)]

\* ge_per_fakulti of fakulti_ge_atas_overall: a faculty whose total_ge is
\* not positive gets None and is left out of the list.
ge_per_fakulti(t) ==
    LET g == groupby_fakulti(t)
    IN  SelectSeq([i \in DOMAIN g |-> [f |-> g[i], t |-> fak_df(t, g[i])]],
                  LAMBDA x : total_ge_of(x.t) > 0)

fakulti_ge_atas_overall(t) ==
    IF empty(t) \/ "e_fakulti_label" \notin t.cols THEN Warning
    ELSE IF ~has_cols(t, {"e_status_label", "e_status", "e_54"}) THEN KeyError
    ELSE LET overall_ge    == percent_ge_of(t)
             fakulti_above == SelectSeq(ge_per_fakulti(t),
                                        LAMBDA x : gt(percent_ge_of(x.t), overall_ge))
         IN  [kind  |-> "metric",
              value |-> Len(fakulti_above),
              delta |-> fmt1(overall_ge),
              help  |-> [i \in DOMAIN fakulti_above |-> fakulti_above[i].f]]

\* total, responded and the rate of purata_kadar_respons, target_kadar_respons
\* and of each group of fakulti_highest / fakulti_lowest_kadar_respons.
kadar_of(t) ==
    LET total     == count(t, "e_statusPenyertaan")
        responded == CountIf(t, LAMBDA r : eq(r.e_statusPenyertaan, 1))
    IN  IF total > 0 THEN Pct(responded, total) ELSE Zero

purata_kadar_respons(t) ==
    IF empty(t) \/ "e_statusPenyertaan" \notin t.cols THEN Warning
    ELSE [kind |-> "metric", value |-> fmt1(kadar_of(t))]

target == 90

target_kadar_respons(t) ==
    IF empty(t) \/ "e_statusPenyertaan" \notin t.cols THEN Warning
    ELSE [kind  |-> "metric",
          value |-> IF ~gt(Pct(target, 100), kadar_of(t)) THEN "Tercapai" ELSE "Belum Tercapai",
          delta |-> fmt1(kadar_of(t))]

kadar_records(t) ==
    LET g == groupby_fakulti(t)
    IN  [i \in DOMAIN g |-> [f |-> g[i], v |-> kadar_of(fak_df(t, g[i]))]]

fakulti_highest_kadar_respons(t) ==
    IF empty(t) \/ ~has_cols(t, {"e_fakulti_label", "e_statusPenyertaan"}) THEN Warning
    ELSE IF kadar_records(t) = <<>> THEN Warning
    ELSE [kind  |-> "metric",
          value |-> first_max(kadar_records(t)).f,
          delta |-> fmt1(first_max(kadar_records(t)).v)]

fakulti_lowest_kadar_respons(t) ==
    IF empty(t) \/ ~has_cols(t, {"e_fakulti_label", "e_statusPenyertaan"}) THEN Warning
    ELSE IF kadar_records(t) = <<>> THEN Warning
    ELSE [kind  |-> "metric",
          value |-> first_min(kadar_records(t)).f,
          delta |-> fmt1(first_min(kadar_records(t)).v)]

\* Variant: every faculty in the first category.
kategori_satu(total_graduan) == 1

\* The category of a faculty by its number of graduates.
kategori_of(total_graduan) ==
    IF total_graduan < 200 THEN 1
    ELSE IF 200 <= total_graduan /\ total_graduan <= 700 THEN 2
    ELSE 3

\* kategori_ge: one record per canonical faculty, then
\* df_chart.sort_values(["Kategori", "Fakulti"]).
kategori_ge(t) ==
    IF ~has_cols(t, {"e_status_label", "e_status", "e_54", "e_fakulti_label"})
    THEN Warning
    ELSE LET rec(f) == [Fakulti  |-> f,
                        GE       |-> round1(percent_ge_of(fak_df(t, f))),
                        Kategori |-> kategori_of(shape0(fak_df(t, f))),
                        Bilangan |-> shape0(fak_df(t, f))]
             by_name == [i \in DOMAIN AlphaFakulti |-> rec(AlphaFakulti[i])]
             of_kategori(k) == SelectSeq(by_name, LAMBDA x : x.Kategori = k)
         IN  [kind    |-> "chart",
              records |-> of_kategori(1) \o of_kategori(2) \o of_kategori(3)]

\* The functions the overview calls, in the order the script calls them.
DashCalls ==
    << "kategori_ge", "ge_gm_line_tahun", "table_gm_tahun", "ge_gm_keseluruhan",
       "graduate_employability_ikut_ptj", "fakulti_gm_tertinggi", "fakulti_ge_tertinggi",
       "fakulti_gm_atas_overall", "fakulti_ge_atas_overall", "purata_kadar_respons",
       "target_kadar_respons", "fakulti_highest_kadar_respons",
       "fakulti_lowest_kadar_respons", "kadar_respons_ikut_ptj",
       "donut_phd", "donut_master", "donut_degree", "donut_diploma",
       "bekerja_dalam_bidang_ikut_ptj", "kemahiran_kerja" >>

\* An exception ends the script run: what would have come after is not run.
NotRun == [kind |-> "not run"]

RunTo(calls, results) ==
    [i \in DOMAIN calls |->
       IF \E j \in 1 .. i - 1 : results[calls[j]].kind \in {"KeyError", "ValueError"}
       THEN NotRun ELSE results[calls[i]]]

Named(calls, outs) == [name \in Range(calls) |->
                         outs[CHOOSE i \in DOMAIN calls : calls[i] = name]]

\* One run of dashboard.py over the loaded table with the given selections.
dashboard(t, avail, selected_years, selected_warganegara) ==
    LET d == dash_df(t)
        f == df_filtered_year(d, avail, selected_years, selected_warganegara)
        results ==
            [kategori_ge                     |-> kategori_ge(f),
             ge_gm_line_tahun                |-> ge_gm_line_tahun(d),
             table_gm_tahun                  |-> table_gm_tahun(d),
             ge_gm_keseluruhan               |-> ge_gm_keseluruhan(f, d),
             graduate_employability_ikut_ptj |-> graduate_employability_ikut_ptj(f),
             fakulti_gm_tertinggi            |-> fakulti_gm_tertinggi(f),
             fakulti_ge_tertinggi            |-> fakulti_ge_tertinggi(f),
             fakulti_gm_atas_overall         |-> fakulti_gm_atas_overall(f),
             fakulti_ge_atas_overall         |-> fakulti_ge_atas_overall(f),
             purata_kadar_respons            |-> purata_kadar_respons(f),
             target_kadar_respons            |-> target_kadar_respons(f),
             fakulti_highest_kadar_respons   |-> fakulti_highest_kadar_respons(f),
             fakulti_lowest_kadar_respons    |-> fakulti_lowest_kadar_respons(f),
             kadar_respons_ikut_ptj          |-> kadar_respons_ikut_ptj(f),
             donut_phd                       |-> gaji_ikut_kumpulan_donut(f, "PhD"),
             donut_master                    |-> gaji_ikut_kumpulan_donut(f, "Sarjana"),
             donut_degree                    |-> gaji_ikut_kumpulan_donut(f, "Sarjana Muda"),
             donut_diploma                   |-> gaji_ikut_kumpulan_donut(f, "Diploma"),
             bekerja_dalam_bidang_ikut_ptj   |-> bekerja_dalam_bidang_ikut_ptj(f),
             kemahiran_kerja                 |-> kemahiran_kerja(f)]
    IN  Named(DashCalls, RunTo(DashCalls, results))

----------------------------------------------------------------------------
(* The PTj view (fakulti.py): filter widgets, filter and metric functions  *)

\* Each widget's effective selection and the table it leaves to the next
\* one: an empty selection stands for the whole option list.  Option lists
\* are sets here; their sorted order shows in the widget alone.
tapis_tahun(t, selected_years) ==
    IF selected_years = {} THEN t ELSE Rows(t, LAMBDA r : isin(r.SKPG_Tahun, selected_years))

fakulti_list(t, selected_years) == Range(unique(tapis_tahun(t, selected_years), "e_fakulti"))

\* With faculties selected the rows come from df, not from tapis_tahun.
tapis_fakulti(t, selected_years, selected_fakultis) ==
    IF selected_fakultis = {} THEN tapis_tahun(t, selected_years)
    ELSE Rows(t, LAMBDA r : isin(r.e_fakulti, selected_fakultis))

peringkat_pengajian_list(t, selected_years, selected_fakultis) ==
    Range(unique(tapis_fakulti(t, selected_years, selected_fakultis), "e_peringkat_label"))

tapis_peringkat(t, selected_years, selected_fakultis, selected_peringkat) ==
    IF selected_peringkat = {} THEN tapis_fakulti(t, selected_years, selected_fakultis)
    ELSE Rows(tapis_fakulti(t, selected_years, selected_fakultis),
              LAMBDA r : isin(r.e_peringkat_label, selected_peringkat))

program_list(t, selected_years, selected_fakultis, selected_peringkat) ==
    Range(unique(tapis_peringkat(t, selected_years, selected_fakultis, selected_peringkat),
                 "e_program"))

\* The selections after the widgets ran: s gives what the user picked.
effective(t, avail, s) ==
    [years     |-> IF s.years = {} THEN Range(avail) ELSE s.years,
     fakultis  |-> IF s.fakultis = {} THEN fakulti_list(t, s.years) ELSE s.fakultis,
     peringkat |-> IF s.peringkat = {}
                   THEN peringkat_pengajian_list(t, s.years, s.fakultis) ELSE s.peringkat,
     programs  |-> IF s.programs = {}
                   THEN program_list(t, s.years, s.fakultis, s.peringkat) ELSE s.programs,
     warganegara |-> IF s.warganegara = "Semua"
                     THEN Range(warganegara_label_list) ELSE {s.warganegara}]

ptj_df_filtered_year(t, e) == Rows(t, LAMBDA r : isin(r.SKPG_Tahun, e.years))

filtered_df(t, e) ==
    Rows(ptj_df_filtered_year(t, e),
         LAMBDA r : /\ isin(r.e_fakulti, e.fakultis)
                    /\ isin(r.e_warganegara_label, e.warganegara)
                    /\ isin(r.e_peringkat_label, e.peringkat)
                    /\ isin(r.e_program, e.programs))

\* The table of the summary cards: citizenship is not applied, and no filter
\* but the year's when one of the three effective lists is empty.
ringkasan_total_df(t, e) ==
    IF e.fakultis /= {} /\ e.programs /= {} /\ e.peringkat /= {}
    THEN Rows(ptj_df_filtered_year(t, e),
              LAMBDA r : /\ isin(r.e_fakulti, e.fakultis)
                         /\ isin(r.e_program, e.programs)
                         /\ isin(r.e_peringkat_label, e.peringkat))
    ELSE ptj_df_filtered_year(t, e)

jumlah_keseluruhan_graduan(ringkasan) == [kind |-> "metric", value |-> shape0(ringkasan)]

\* The "Responden" card: with no labelled row it shows the text "Error".
peratusan_responden(ringkasan) ==
    LET total_responden == count(ringkasan, "e_statusPenyertaan_label")
        total_lengkap   == count(Rows(ringkasan, LAMBDA r : eq(r.e_statusPenyertaan_label, "Sertai")),
                                 "e_statusPenyertaan_label")
    IN  IF total_responden > 0
        THEN [kind  |-> "metric", label |-> "Responden",
              value |-> Format1(total_lengkap, total_responden), delta |-> total_lengkap]
        ELSE [kind |-> "metric", label |-> "Peratusan Responden", text |-> "Error"]

graduate_marketability(f) ==
    [kind  |-> "metric",
     value |-> fmt1(gm_of(f)),
     delta |-> responden_of(f) - tidak_bekerja_of(f)]

\* if "e_status_label" and "e_54" and "e_status" in filtered_df.columns:
\* the test is on "e_status" alone.
graduate_employability(f) ==
    IF "e_status" \notin f.cols THEN [kind |-> "nothing"]
    ELSE IF "e_54" \notin f.cols THEN KeyError
    ELSE [kind  |-> "metric",
          value |-> fmt1(percent_ge_of(f)),
          delta |-> bekerja_of(f)]

gaji_premium_kumpulan(f) ==
    IF "e_44_kumpulan" \notin f.cols THEN [kind |-> "nothing"]
    ELSE LET gaji_premium == Rows(f, LAMBDA r : ne(r.e_44_kumpulan, -2))
             total        == count(gaji_premium, "e_44_kumpulan")
             real_premium == count(Rows(gaji_premium, LAMBDA r : ge(r.e_44_kumpulan, 11)),
                                   "e_44_kumpulan")
         IN  [kind  |-> "metric",
              value |-> IF total > 0 THEN Format1(real_premium, total) ELSE 0,
              delta |-> real_premium]

\* group_gaji of gaji_ikut_kumpulan and table_gaji_ikut_kumpulan: the band
\* of one cell, 0 for "meow" / "Lain-lain"; every comparison with a missing
\* cell is False.
group_gaji(c) ==
    IF c = NaN THEN 0
    ELSE IF 0 < c[1] /\ c[1] <= 4 THEN 1
    ELSE IF 5 <= c[1] /\ c[1] <= 7 THEN 2
    ELSE IF c[1] = 8 THEN 3
    ELSE IF c[1] >= 11 THEN 4
    ELSE 0

gaji_ikut_kumpulan(f) ==
    IF "e_44_kumpulan" \notin f.cols THEN [kind |-> "nothing"]
    ELSE [kind   |-> "pie",
          counts |-> [b \in Bands |-> CountIf(f, LAMBDA r : group_gaji(r.e_44_kumpulan) = b)]]

\* Series.round(2) of x = num / den * 100, in hundredths: numpy's
\* rint(x * 100) / 100.
Round2(num, den) ==
    IF Midway(10000, num, den)
    THEN Side(mul(percent(num, den), 100), (10000 * num) \div den, 1)
    ELSE Nearest(10000, num, den)

\* The salary-band table: a column divided by its sum, 0 / 0 being NaN.
table_gaji_ikut_kumpulan(f) ==
    IF empty(f) \/ "e_44_kumpulan" \notin f.cols THEN [kind |-> "nothing"]
    ELSE LET counts == [b \in Bands |-> CountIf(f, LAMBDA r : group_gaji(r.e_44_kumpulan) = b)]
             total  == counts[1] + counts[2] + counts[3] + counts[4]
         IN  [kind |-> "table",
              rows |-> [b \in Bands |->
                          [Bilangan |-> counts[b],
                           Peratus  |-> IF total = 0 THEN NaN
                                        ELSE <<Round2(counts[b], total)>>]]]

\* table_sektor_pekerjaan: one row per sector label that has rows, the
\* share of each rounded to two decimals; groupby leaves missing labels out.
table_sektor_pekerjaan(f) ==
    IF empty(f) \/ "e_45_label" \notin f.cols THEN [kind |-> "nothing"]
    ELSE IF "e_statusPenyertaan" \notin f.cols THEN KeyError
    ELSE LET filtered == Rows(f, LAMBDA r : ne(r.e_45_label, "Tidak Berkenaan")
                                            /\ eq(r.e_statusPenyertaan, 1))
             keys     == Range(unique(filtered, "e_45_label"))
             total    == count(filtered, "e_45_label")
         IN  [kind |-> "table",
              rows |-> [k \in keys |->
                LET n == CountIf(filtered, LAMBDA r : eq(r.e_45_label, k))
                IN  [Bilangan |-> n, Peratus |-> <<Round2(n, total)>>]]]

PtjCalls ==
    << "jumlah_keseluruhan_graduan", "peratusan_responden", "graduate_marketability",
       "graduate_employability", "gaji_premium_kumpulan", "gaji_ikut_kumpulan",
       "table_sektor_pekerjaan", "table_gaji_ikut_kumpulan" >>

\* One run of fakulti.py over the loaded table with the given selections.
fakulti(t, avail, s) ==
    LET d == ptj_df(t)
        e == effective(d, avail, s)
        f == filtered_df(d, e)
        results ==
            [jumlah_keseluruhan_graduan |-> jumlah_keseluruhan_graduan(ringkasan_total_df(d, e)),
             peratusan_responden        |-> peratusan_responden(ringkasan_total_df(d, e)),
             graduate_marketability     |-> graduate_marketability(f),
             graduate_employability     |-> graduate_employability(f),
             gaji_premium_kumpulan      |-> gaji_premium_kumpulan(f),
             gaji_ikut_kumpulan         |-> gaji_ikut_kumpulan(f),
             table_sektor_pekerjaan     |-> table_sektor_pekerjaan(f),
             table_gaji_ikut_kumpulan   |-> table_gaji_ikut_kumpulan(f)]
    IN  Named(PtjCalls, RunTo(PtjCalls, results))

----------------------------------------------------------------------------
(* Ingestion: file discovery, cache conversion and the two loaders         *)
(*                                                                         *)
(* The data folder is a record [listdir, xlsx, parquet, clock]: listdir    *)
(* gives the years of the spreadsheets "Data SKPG <year>.xlsx" in the      *)
(* order os.listdir returns them, xlsx and parquet give each year's two    *)
(* files, clock is the time of the machine.                                *)
(* A file is [exists, mtime, data, ok]: data is the table it holds, ok     *)
(* tells whether the converter can read the spreadsheet, or pandas the     *)
(* cache file.                                                             *)

NoTable == [cols |-> {}, blocks |-> <<>>]
NoFile  == [exists |-> FALSE, mtime |-> 0, data |-> NoTable, ok |-> FALSE]

\* The modification time of a file the program writes: the time of the
\* machine, whatever the times the other files of the folder carry.
now(fs) == fs.clock

\* needs_convert of ensure_parquet_from_excel
needs_convert(fs, year) ==
    IF fs.parquet[year].exists
    THEN fs.parquet[year].mtime < fs.xlsx[year].mtime
    ELSE TRUE

\* ensure_parquet_from_excel: the folder it leaves, and whether it raised.
ensure_parquet_from_excel(fs, year) ==
    IF ~DUCKDB_AVAILABLE THEN [raised |-> FALSE, files |-> fs]
    ELSE IF ~fs.xlsx[year].exists THEN [raised |-> FALSE, files |-> fs]
    ELSE IF ~needs_convert(fs, year) THEN [raised |-> FALSE, files |-> fs]
    ELSE IF ~fs.xlsx[year].ok THEN [raised |-> TRUE, files |-> fs]
    ELSE [raised |-> FALSE,
          files  |-> [fs EXCEPT !.parquet[year] =
                        [exists |-> TRUE, mtime |-> now(fs),
                         data |-> fs.xlsx[year].data, ok |-> TRUE]]]

\* build_year_maps: the loop over the listing.  The maps are the years in
\* insertion order, each path being decided by its year.
RECURSIVE build_year_maps_from(_, _)
build_year_maps_from(m, todo) ==
    IF todo = <<>> THEN m
    ELSE LET year == Head(todo)
             e    == ensure_parquet_from_excel(m.files, year)
             hit  == DUCKDB_AVAILABLE /\ ~e.raised /\ e.files.parquet[year].exists
         IN  build_year_maps_from(
                 [files       |-> e.files,
                  xlsx_map    |-> Append(m.xlsx_map, year),
                  parquet_map |-> IF hit THEN Append(m.parquet_map, year)
                                  ELSE m.parquet_map],
                 Tail(todo))

build_year_maps(fs) ==
    build_year_maps_from([files |-> fs, xlsx_map |-> <<>>, parquet_map |-> <<>>], fs.listdir)

\* sorted(keys, reverse=True) on the year strings of the bound.
YearsDesc == << "2024", "2023" >>

available_years_of(m) ==
    SelectSeq(YearsDesc, LAMBDA y : y \in (IF m.parquet_map /= <<>>
                                           THEN Range(m.parquet_map)
                                           ELSE Range(m.xlsx_map)))


\* dfp["SKPG_Tahun"] = year                          when the file has no such column,
\* dfp["SKPG_Tahun"].astype(str).replace({"nan": year})   when it has one:
\* the numbers of a column are cast as its dtype prints them.
tahun_parquet(data, year, c) ==
    IF "SKPG_Tahun" \notin data.cols THEN <<year>>
    ELSE IF c = NaN THEN <<year>>
    ELSE IF IsFloat(data, "SKPG_Tahun") THEN <<ToString(c[1]) \o ".0">>
    ELSE <<ToString(c[1])>>

\* One file's frame after the year tag was set: T gives the tag of a row.
Tagged(data, year, T(_, _, _)) ==
    [cols   |-> data.cols \cup {"SKPG_Tahun"},
     blocks |-> [i \in DOMAIN data.blocks |->
                   [r |-> [data.blocks[i].r EXCEPT
                             !.SKPG_Tahun = T(data, year, data.blocks[i].r.SKPG_Tahun)],
                    n |-> data.blocks[i].n]]]

\* df["SKPG_Tahun"] = year of load_all_excel
tahun_excel(data, year, c) == <<year>>

\* pd.concat(dfs, ignore_index=True): the union of the columns, a row
\* missing in the columns its own frame lacks.
RECURSIVE concat(_)
concat(dfs) ==
    IF dfs = <<>> THEN NoTable
    ELSE LET d    == Head(dfs)
             rest == concat(Tail(dfs))
         IN  [cols   |-> d.cols \cup rest.cols,
              blocks |-> [i \in DOMAIN d.blocks |->
                            [r |-> [c \in DOMAIN d.blocks[i].r |->
                                      IF c \in d.cols THEN d.blocks[i].r[c] ELSE NaN],
                             n |-> d.blocks[i].n]]
                         \o rest.blocks]

\* load_all_parquet: pd.read_parquet raises on a file it cannot read.
load_all_parquet(fs, files_by_year) ==
    IF \E i \in DOMAIN files_by_year : ~fs.parquet[files_by_year[i]].ok
    THEN [raised |-> TRUE, df |-> NoTable]
    ELSE [raised |-> FALSE,
          df |-> concat([i \in DOMAIN files_by_year |->
                           Tagged(fs.parquet[files_by_year[i]].data, files_by_year[i],
                                  tahun_parquet)])]

load_all_excel(fs, files_by_year) ==
    [raised |-> FALSE,
     df |-> concat([i \in DOMAIN files_by_year |->
                      Tagged(fs.xlsx[files_by_year[i]].data, files_by_year[i], tahun_excel)])]

\* @st.cache_data: a call with the arguments of an earlier call of the same
\* function returns the table kept from it; a call that raises keeps nothing.
\* The two scripts define the two loaders with the same text, in the module
\* "__main__" a page is run as, over the same paths: st.cache_data, which
\* tells functions apart by module, qualified name and source text, keeps one
\* memo for both pages.
NoMemo == [k \in {} |-> NoTable]

cached(memo, key, call) ==
    IF key \in DOMAIN memo THEN [raised |-> FALSE, df |-> memo[key], memo |-> memo]
    ELSE IF call.raised THEN [raised |-> TRUE, df |-> NoTable, memo |-> memo]
    ELSE [raised |-> FALSE, df |-> call.df, memo |-> (key :> call.df) @@ memo]

\* The module-level load of either script: the maps, the years offered, and the
\* table from the cache files when there is one, from the spreadsheets when
\* there is none or when reading the cache files raised.
load(fs, memo) ==
    LET m       == build_year_maps(fs)
        excel(mm) == cached(mm, [loader |-> "load_all_excel",
                                 files_by_year |-> m.xlsx_map],
                            load_all_excel(m.files, m.xlsx_map))
        first   == IF m.parquet_map /= <<>>
                   THEN cached(memo, [loader |-> "load_all_parquet",
                                      files_by_year |-> m.parquet_map],
                               load_all_parquet(m.files, m.parquet_map))
                   ELSE excel(memo)
        got     == IF first.raised THEN excel(first.memo) ELSE first
    IN  [files           |-> m.files,
         cache_data      |-> got.memo,
         df              |-> got.df,
         available_years |-> available_years_of(m),
         xlsx_map        |-> m.xlsx_map,
         parquet_map     |-> m.parquet_map]

----------------------------------------------------------------------------
(* The session: the loaded table, then script runs as the user moves the   *)
(* widgets                                                                 *)

DashBlank == [name \in Range(DashCalls) |-> NotRun]
PtjBlank  == [name \in Range(PtjCalls) |-> NotRun]
\* if df.empty: st.warning("Tiada data dijumpai."); st.stop() : the run ends
\* with the notice and none of the calls of the layout.
NoData(blank) == ("st_stop" :> Warning) @@ blank

\* The label derivation of fakulti.py raised: the run ends there, before
\* the widgets and the layout.
Raised(blank) == ("label_derivation" :> [kind |-> "KeyError"]) @@ blank

NoSel     == [years |-> {}, fakultis |-> {}, peringkat |-> {}, programs |-> {},
              warganegara |-> "Semua"]

\* A run of dashboard.py: the module-level load, then the year multiselect
\* and the citizenship selectbox give the selection; an empty table ends
\* the run at st.stop().
RunDashboard(selected_years, selected_warganegara) ==
    LET L == load(files, cache_data)
    IN  /\ selected_years \subseteq Range(L.available_years)
        /\ selected_warganegara \in {"Semua"} \cup Range(warganegara_label_list)
        /\ page' = "dashboard"
        /\ sel' = [NoSel EXCEPT !.years = selected_years,
                                !.warganegara = selected_warganegara]
        /\ dash' = IF empty(L.df) THEN NoData(DashBlank)
                   ELSE dashboard(L.df, L.available_years, selected_years,
                                  selected_warganegara)
        /\ ptj' = PtjBlank
        /\ df' = L.df
        /\ available_years' = L.available_years
        /\ files' = L.files
        /\ cache_data' = L.cache_data
        /\ UNCHANGED DUCKDB_AVAILABLE

\* A run of fakulti.py: the module-level load, then each multiselect offers
\* its option list, which the selections to its left decide.
RunFakulti(s) ==
    LET L  == load(files, cache_data)
        d  == ptj_df(L.df)
        ok == ~empty(L.df) /\ PtjRequired \subseteq L.df.cols
    IN  /\ s.years \subseteq Range(L.available_years)
        /\ s.warganegara \in {"Semua"} \cup Range(warganegara_label_list)
        /\ IF ok
           THEN /\ s.fakultis \subseteq fakulti_list(d, s.years)
                /\ s.peringkat \subseteq peringkat_pengajian_list(d, s.years, s.fakultis)
                /\ s.programs \subseteq program_list(d, s.years, s.fakultis, s.peringkat)
           ELSE s = NoSel
        /\ page' = "fakulti"
        /\ sel' = s
        /\ ptj' = IF empty(L.df) THEN NoData(PtjBlank)
                  ELSE IF ~ok THEN Raised(PtjBlank)
                  ELSE fakulti(L.df, L.available_years, s)
        /\ dash' = DashBlank
        /\ df' = L.df
        /\ available_years' = L.available_years
        /\ files' = L.files
        /\ cache_data' = L.cache_data
        /\ UNCHANGED DUCKDB_AVAILABLE

\* A data folder whose two spreadsheets hold the rows of table t, each the
\* rows of its year with the year as a whole number in the year column, and
\* no cache file.
FolderOf(t) ==
    LET years  == << "2023", "2024" >>
        number == [y \in Range(years) |-> IF y = "2023" THEN 2023 ELSE 2024]
        sheet(y) ==
            LET d == Rows(t, LAMBDA r : r.SKPG_Tahun = <<y>>)
            IN  [d EXCEPT !.blocks =
                   [i \in DOMAIN d.blocks |->
                      [d.blocks[i] EXCEPT !.r.SKPG_Tahun = <<number[y]>>]]]
    IN  [listdir |-> years,
         xlsx    |-> [y \in Range(years) |->
                        [exists |-> TRUE, mtime |-> 1, ok |-> TRUE, data |-> sheet(y)]],
         parquet |-> [y \in Range(years) |-> NoFile],
         clock   |-> 1]

\* A session starts with nothing loaded, nothing kept by st.cache_data and
\* nothing rendered; the folder holds one of the given tables, and the
\* converter is installed (import duckdb succeeds) or is not.
Session(tables) ==
    /\ files \in {FolderOf(t) : t \in tables}
    /\ DUCKDB_AVAILABLE \in BOOLEAN
    /\ cache_data = NoMemo
    /\ df = NoTable
    /\ available_years = <<>>
    /\ page = "none"
    /\ sel = NoSel
    /\ dash = DashBlank
    /\ ptj = PtjBlank

----------------------------------------------------------------------------
(* Input tables                                                            *)

AllCols == RawCols

DefaultRow ==
    [SKPG_Tahun |-> <<"2024">>, e_fakulti |-> <<"Fakulti Sains">>,
     e_program |-> <<"Sarjana Muda Sains">>, e_warganegara |-> <<1>>,
     e_40 |-> <<1>>, e_43 |-> <<8>>,
     e_peringkat |-> <<4>>, e_status |-> <<1>>, e_54 |-> <<-2>>,
     e_statusPenyertaan |-> <<1>>, e_44_kumpulan |-> <<-2>>, e_41_a |-> <<-2>>,
     e_45 |-> <<-2>>, e_50_b |-> <<1>>]

\* A row that differs from the default one in the given cells.
Row(cells) == cells @@ DefaultRow

Table(blocks) == [cols |-> AllCols, blocks |-> blocks]

MaxBlocks == 2
Mult == {1, 2}

\* Every table of at most MaxBlocks blocks of the given rows, each block
\* holding one of the given numbers of equal rows.
BlocksOf(rows, mult) == UNION {[1 .. k -> [r : rows, n : mult]] : k \in 0 .. MaxBlocks}
TablesOf(rows, mult) == {Table(b) : b \in BlocksOf(rows, mult)}
Tables(rows) == TablesOf(rows, Mult)

\* Work status and reason for not working, in two faculties and two years.
RowsGE ==
    {Row([e_status |-> st[1], e_54 |-> st[2], e_fakulti |-> fy[1], SKPG_Tahun |-> fy[2]]) :
       st \in {<< <<1>>, <<-2>> >>, << <<0>>, NaN >>, << NaN, NaN >>, << <<5>>, <<1>> >>,
               << <<5>>, <<5>> >>, << <<5>>, <<34>> >>, << <<5>>, NaN >>},
       fy \in {<< <<"AKADEMI PENGAJIAN ISLAM">>, <<"2024">> >>,
               << <<"Fakulti Sains">>, <<"2024">> >>,
               << <<"AKADEMI PENGAJIAN ISLAM">>, <<"2023">> >>}}

\* 80 working, 15 not yet working of whom 12 are outside the labour force
\* and 3 are looking for work, 5 with no information.
ScenarioGE ==
    Table(<< [r |-> Row([e_status |-> <<1>>]), n |-> 80],
             [r |-> Row([e_status |-> <<5>>, e_54 |-> <<1>>]), n |-> 12],
             [r |-> Row([e_status |-> <<5>>, e_54 |-> <<5>>]), n |-> 3],
             [r |-> Row([e_status |-> <<0>>, e_54 |-> NaN]), n |-> 5] >>)

InitGE == Session(Tables(RowsGE) \cup {ScenarioGE})

NextGE ==
    \/ \E y \in {{}, {"2024"}} : RunDashboard(y, "Semua")
    \/ \E y \in {{}, {"2024"}}, f \in {{}, {"Akademi Pengajian Islam"}} :
          RunFakulti([NoSel EXCEPT !.years = y, !.fakultis = f])

SpecGE == InitGE /\ [][NextGE]_vars

\* Participation status, in two faculties and two years.
RowsRespons ==
    {Row([e_statusPenyertaan |-> c, e_fakulti |-> fy[1], SKPG_Tahun |-> fy[2]]) :
       c \in {<<1>>, <<2>>, <<-2>>, NaN},
       fy \in {<< <<"AKADEMI PENGAJIAN ISLAM">>, <<"2024">> >>,
               << <<"Fakulti Sains">>, <<"2024">> >>,
               << <<"AKADEMI PENGAJIAN ISLAM">>, <<"2023">> >>}}

\* 200 rows with a participation code, 150 of them with code 1.
ScenarioRespons ==
    Table(<< [r |-> Row([e_statusPenyertaan |-> <<1>>]), n |-> 150],
             [r |-> Row([e_statusPenyertaan |-> <<2>>]), n |-> 50] >>)

InitRespons == Session(Tables(RowsRespons) \cup {ScenarioRespons})

NextRespons ==
    \/ \E y \in {{}, {"2024"}} : RunDashboard(y, "Semua")
    \/ \E y \in {{}, {"2024"}}, f \in {{}, {"Akademi Pengajian Islam"}} :
          RunFakulti([NoSel EXCEPT !.years = y, !.fakultis = f])

SpecRespons == InitRespons /\ [][NextRespons]_vars

\* Salary-group codes at two study levels, and a row that took no part.
RowsGaji ==
    {Row([e_44_kumpulan |-> c, e_peringkat |-> p]) :
       c \in {NaN, <<-2>>, <<0>>, <<1>>, <<4>>, <<5>>, <<7>>, <<8>>, <<9>>, <<10>>, <<11>>},
       p \in {<<4>>, <<3>>}}
    \cup {Row([e_statusPenyertaan |-> <<-2>>])}

\* The codes 1, 4, 5, 7, 8, 9, 11 once each, and a row with -2.
ScenarioGaji ==
    Table([i \in 1 .. 8 |->
             [r |-> Row([e_44_kumpulan |-> << <<1, 4, 5, 7, 8, 9, 11, -2>>[i] >>]), n |-> 1]])

InitGaji == Session(Tables(RowsGaji) \cup {ScenarioGaji})

NextGaji ==
    \/ RunDashboard({}, "Semua")
    \/ \E p \in {{}, {"PhD"}} : RunFakulti([NoSel EXCEPT !.peringkat = p])

SpecGaji == InitGaji /\ [][NextGaji]_vars

\* Work-skill codes in two faculties.
RowsKemahiran ==
    {Row([e_41_a |-> c, e_fakulti |-> f]) :
       c \in {NaN} \cup {<<v>> : v \in {-2} \cup 1 .. 11},
       f \in {<<"AKADEMI PENGAJIAN ISLAM">>, <<"Fakulti Sains">>}}

InitKemahiran == Session(Tables(RowsKemahiran))

NextKemahiran ==
    \/ RunDashboard({}, "Semua")
    \/ \E f \in {{}, {"Fakulti Sains"}} : RunFakulti([NoSel EXCEPT !.fakultis = f])

SpecKemahiran == InitKemahiran /\ [][NextKemahiran]_vars

\* Faculties of the three sizes, one of them with no short code, working
\* and not.
RowsUrutan ==
    {Row([e_fakulti |-> f, e_status |-> st]) :
       f \in {<<"AKADEMI PENGAJIAN ISLAM">>, <<"Fakulti Sains">>, <<"Institut Asia Eropah">>,
              <<"Fakulti Lain">>},
       st \in {<<1>>, <<5>>}}
MultUrutan == {1, 200, 701}

InitUrutan == Session(TablesOf(RowsUrutan, MultUrutan))

NextUrutan ==
    \/ RunDashboard({}, "Semua")
    \/ \E f \in {{}, {"Fakulti Sains"}} : RunFakulti([NoSel EXCEPT !.fakultis = f])

SpecUrutan == InitUrutan /\ [][NextUrutan]_vars

\* Rows that differ in the five filter dimensions, a missing or unmapped
\* value in each of them included.
RowsFilter ==
    {Row(o) : o \in
       {[SKPG_Tahun |-> <<"2024">>],
        [SKPG_Tahun |-> <<"2023">>],
        [e_fakulti |-> <<"AKADEMI PENGAJIAN ISLAM">>],
        [e_peringkat |-> <<3>>],
        [e_program |-> <<"Doktor Falsafah">>],
        [e_warganegara |-> <<2>>],
        [e_fakulti |-> NaN],
        [e_peringkat |-> <<9>>],
        [e_program |-> NaN],
        [e_warganegara |-> NaN],
        [SKPG_Tahun |-> <<"2023">>, e_fakulti |-> <<"AKADEMI PENGAJIAN ISLAM">>],
        [SKPG_Tahun |-> <<"2023">>, e_peringkat |-> <<3>>],
        [e_fakulti |-> <<"AKADEMI PENGAJIAN ISLAM">>, e_program |-> <<"Doktor Falsafah">>],
        [SKPG_Tahun |-> <<"2023">>, e_peringkat |-> <<5>>, e_program |-> <<"Sarjana Sains">>]}}

InitFilter == Session(TablesOf(RowsFilter, {1}))

NextFilter ==
    \/ \E y \in {{}, {"2024"}}, w \in {"Semua", "Bukan Warganegara"} : RunDashboard(y, w)
    \/ \E y \in {{}, {"2024"}}, f \in {{}, {"Fakulti Sains"}}, l \in {{}, {"Sarjana Muda"}},
          g \in {{}, {"Sarjana Muda Sains"}} :
          RunFakulti([years |-> y, fakultis |-> f, peringkat |-> l, programs |-> g,
                      warganegara |-> "Semua"])
    \/ RunFakulti([NoSel EXCEPT !.warganegara = "Bukan Warganegara"])

SpecFilter == InitFilter /\ [][NextFilter]_vars

\* Tables that lack up to two of the raw code columns: every cell of an
\* absent column is missing.
OptionalCols ==
    {"e_54", "e_43", "e_45", "e_41_a", "e_50_b", "e_status", "e_statusPenyertaan",
     "e_44_kumpulan"}

Absent == {m \in SUBSET OptionalCols : Cardinality(m) <= 2}

Without(t, m) ==
    [cols   |-> t.cols \ m,
     blocks |-> [i \in DOMAIN t.blocks |->
                   [r |-> [c \in DOMAIN t.blocks[i].r |->
                             IF c \in m THEN NaN ELSE t.blocks[i].r[c]],
                    n |-> t.blocks[i].n]]]

RowsKolum ==
    {Row(o) : o \in
       {[e_status |-> <<1>>, e_41_a |-> <<3>>, e_45 |-> <<4>>, e_44_kumpulan |-> <<5>>],
        [e_status |-> <<5>>, e_54 |-> <<1>>],
        [e_status |-> <<5>>, e_54 |-> <<5>>, e_fakulti |-> <<"AKADEMI PENGAJIAN ISLAM">>],
        [e_status |-> <<1>>, e_41_a |-> <<1>>, SKPG_Tahun |-> <<"2023">>,
         e_statusPenyertaan |-> <<2>>]}}

InitKolum == Session({Without(t, m) : t \in TablesOf(RowsKolum, {1}), m \in Absent})

NextKolum ==
    \/ \E y \in {{}, {"2024"}} : RunDashboard(y, "Semua")
    \/ RunFakulti(NoSel)

SpecKolum == InitKolum /\ [][NextKolum]_vars

\* Data folders: no spreadsheet, the one of 2024, or those of both years in
\* either listing order.  The 2024 sheet has no year column and is
\* convertible or not; its cache file is absent, older than the sheet, of
\* the same time, newer, or newer and unreadable.  The 2023 sheet has no
\* year column, one of whole numbers, or one with an empty cell; its cache
\* file is absent or newer.
SheetRow(tahun, status) == Row([SKPG_Tahun |-> tahun, e_status |-> <<status>>])

Sheets(y) ==
    IF y = "2024"
    THEN {[cols |-> RawCols \ {"SKPG_Tahun"}, blocks |-> <<[r |-> SheetRow(NaN, 1), n |-> 2]>>]}
    ELSE {[cols |-> RawCols \ {"SKPG_Tahun"}, blocks |-> <<[r |-> SheetRow(NaN, 1), n |-> 1]>>],
          [cols |-> RawCols, blocks |-> <<[r |-> SheetRow(<<2023>>, 1), n |-> 1]>>],
          [cols |-> RawCols, blocks |-> <<[r |-> SheetRow(<<2022>>, 1), n |-> 1]>>],
          [cols |-> RawCols, blocks |-> <<[r |-> SheetRow(<<2023>>, 1), n |-> 1],
                                          [r |-> SheetRow(NaN, 1), n |-> 1]>>]}

\* What an older cache file holds, and what a rewritten spreadsheet holds.
OldSheet == [cols |-> RawCols \ {"SKPG_Tahun"}, blocks |-> <<[r |-> SheetRow(NaN, 5), n |-> 1]>>]
NewSheet == [cols |-> RawCols \ {"SKPG_Tahun"}, blocks |-> <<[r |-> SheetRow(NaN, 2), n |-> 3]>>]

XlsxOf(y) == {[exists |-> TRUE, mtime |-> 2, data |-> d, ok |-> k] :
                d \in Sheets(y), k \in IF y = "2024" THEN BOOLEAN ELSE {TRUE}}

ParquetOf(y, x) ==
    {NoFile, [exists |-> TRUE, mtime |-> 3, data |-> x.data, ok |-> TRUE]}
    \cup IF y = "2024"
         THEN {[exists |-> TRUE, mtime |-> 1, data |-> OldSheet, ok |-> TRUE],
               [exists |-> TRUE, mtime |-> 2, data |-> x.data, ok |-> TRUE],
               [exists |-> TRUE, mtime |-> 3, data |-> x.data, ok |-> FALSE]}
         ELSE {}

Listings == {<<>>, <<"2024">>, <<"2023", "2024">>, <<"2024", "2023">>}

\* The two files of year y in a folder that lists the years of l.
PairsOf(y, l) ==
    IF y \in Range(l)
    THEN UNION {{[xlsx |-> x, parquet |-> q] : q \in ParquetOf(y, x)} : x \in XlsxOf(y)}
    ELSE {[xlsx |-> NoFile, parquet |-> NoFile]}

Folders ==
    UNION {{[listdir |-> l,
             xlsx    |-> ("2023" :> a.xlsx) @@ ("2024" :> b.xlsx),
             parquet |-> ("2023" :> a.parquet) @@ ("2024" :> b.parquet),
             clock   |-> 3] :
              a \in PairsOf("2023", l), b \in PairsOf("2024", l)} : l \in Listings}

\* A session starts with nothing loaded and nothing kept by st.cache_data.
InitIngest ==
    /\ files \in Folders
    /\ DUCKDB_AVAILABLE \in BOOLEAN
    /\ cache_data = NoMemo
    /\ df = NoTable
    /\ available_years = <<>>
    /\ page = "none"
    /\ sel = NoSel
    /\ dash = DashBlank
    /\ ptj = PtjBlank

\* The latest time of the machine the sessions run to.
MaxClock == 4

\* Outside the program: time passes.
Tick ==
    /\ files.clock < MaxClock
    /\ files' = [files EXCEPT !.clock = @ + 1]
    /\ UNCHANGED <<df, available_years, page, sel, dash, ptj, DUCKDB_AVAILABLE, cache_data>>

\* Outside the program: a spreadsheet of the folder is replaced.  The new
\* file carries the time it was written, now, or the time it came with: an
\* old one (a copy that keeps the time of its original) or one ahead of the
\* machine's (a file from a machine whose clock is ahead).
ModifySource(y) ==
    /\ files.xlsx[y].exists
    /\ files.xlsx[y].data /= NewSheet
    /\ \E t \in {1, files.clock, files.clock + 1} :
          files' = [files EXCEPT !.xlsx[y] = [exists |-> TRUE, mtime |-> t,
                                              data |-> NewSheet, ok |-> @.ok]]
    /\ UNCHANGED <<df, available_years, page, sel, dash, ptj, DUCKDB_AVAILABLE, cache_data>>

NextIngest ==
    \/ RunDashboard({}, "Semua")
    \/ RunFakulti(NoSel)
    \/ ModifySource("2024")
    \/ Tick

SpecIngest == InitIngest /\ [][NextIngest]_vars

\* Work status (working, looking for work, a code the overview's map lacks)
\* and participation, in two faculties whose order of appearance is not the
\* order of their codes.
RowsBanding ==
    {Row([e_status |-> st[1], e_54 |-> st[2], e_statusPenyertaan |-> c, e_fakulti |-> f]) :
       st \in {<< <<1>>, <<-2>> >>, << <<5>>, <<5>> >>, << <<-2>>, <<-2>> >>},
       c \in {<<1>>, <<2>>},
       f \in {<<"Fakulti Sains">>, <<"AKADEMI PENGAJIAN ISLAM">>}}

InitBanding == Session(TablesOf(RowsBanding, {1}))

NextBanding ==
    \/ \E y \in {{}, {"2024"}} : RunDashboard(y, "Semua")
    \/ RunFakulti(NoSel)

SpecBanding == InitBanding /\ [][NextBanding]_vars

----------------------------------------------------------------------------
(* The tables the metric functions of the current run were given           *)

DashTable    == dash_df(df)
DashFiltered == df_filtered_year(DashTable, available_years, sel.years, sel.warganegara)
PtjTable     == ptj_df(df)
PtjFiltered  == filtered_df(PtjTable, effective(PtjTable, available_years, sel))

\* The slice of a table for one faculty code, one year, one year and level.
OfFakulti(t, f) == Rows(t, LAMBDA r : r.e_fakulti_label = <<f>>)
OfTahun(t, y)   == Rows(t, LAMBDA r : r.SKPG_Tahun = <<y>>)
OfTahunPeringkat(t, y, p) ==
    Rows(t, LAMBDA r : r.SKPG_Tahun = <<y>> /\ r.e_peringkat_label = <<p>>)

----------------------------------------------------------------------------
(* Graduate Employability and Graduate Marketability                       *)

\* num / den * 100 to the nearest tenth of a percent, in tenths (den > 0,
\* 0 <= num <= den), stated by its distance to the exact value.
Nearest1(num, den) ==
    CHOOSE x \in 0 .. 1000 :
       /\ 2 * (1000 * num - x * den) <= den
       /\ 2 * (x * den - 1000 * num) <= den
       /\ (2 * (x * den - 1000 * num) = den => x % 2 = 0)
       /\ (2 * (1000 * num - x * den) = den => x % 2 = 0)

\* The GE formula as stated: the three counts, total_ge and the rate in
\* tenths of a percent. A row counts as outside the labour force when it has
\* a reason code and that code is neither 5 nor 34.
StatedGE(t) ==
    LET bekerja       == CountIf(t, LAMBDA r : r.e_status_label = <<"Bekerja">>)
        tidak_bekerja == CountIf(t, LAMBDA r : r.e_status_label = <<"Belum Bekerja">>)
        luar_tenaga_buruh ==
            CountIf(t, LAMBDA r : r.e_status = <<5>> /\ r.e_54 /= NaN
                                  /\ r.e_54 \notin {<<5>>, <<34>>})
        total_ge      == bekerja + tidak_bekerja - luar_tenaga_buruh
    IN  [bekerja |-> bekerja, tidak_bekerja |-> tidak_bekerja,
         luar_tenaga_buruh |-> luar_tenaga_buruh, total_ge |-> total_ge,
         GE |-> IF total_ge > 0 THEN Nearest1(bekerja, total_ge) ELSE 0]

\* The GM formula as stated; a row with no work-status label is no respondent.
StatedGM(t) ==
    LET responden     == CountIf(t, LAMBDA r : r.e_status_label /= NaN
                                              /\ r.e_status_label /= <<"Tiada Maklumat">>)
        belum_bekerja == CountIf(t, LAMBDA r : r.e_status_label = <<"Belum Bekerja">>)
    IN  [responden |-> responden, belum_bekerja |-> belum_bekerja,
         GM |-> IF responden > 0 THEN Nearest1(responden - belum_bekerja, responden) ELSE 0]

\* C1: every GE the program shows - the GE card of the PTj view, the GE of
\* each faculty and the GE of each year in the overview - is
\* bekerja / total_ge * 100 (to one decimal) whenever total_ge > 0, with the
\* three counts as stated; 80 working, 15 not yet working and 12 exclusions
\* give total_ge = 83 and GE = 96.4.
C1_GEFormula ==
    /\ (page = "fakulti" /\ ptj.graduate_employability.kind = "metric") =>
          (StatedGE(PtjFiltered).total_ge > 0 =>
             ptj.graduate_employability.value = StatedGE(PtjFiltered).GE)
    /\ (page = "dashboard" /\ dash.graduate_employability_ikut_ptj.kind = "chart") =>
          \A i \in DOMAIN dash.graduate_employability_ikut_ptj.records :
             LET rec == dash.graduate_employability_ikut_ptj.records[i]
                 st  == StatedGE(OfFakulti(DashFiltered, rec.Fakulti))
             IN  st.total_ge > 0 => rec.GE = st.GE
    /\ (page = "dashboard" /\ dash.ge_gm_keseluruhan.kind = "chart") =>
          \A i \in DOMAIN dash.ge_gm_keseluruhan.records :
             LET rec == dash.ge_gm_keseluruhan.records[i]
                 st  == StatedGE(OfTahun(DashTable, rec.Tahun))
             IN  st.total_ge > 0 => rec.GE = st.GE
    /\ (df = ScenarioGE /\ page = "fakulti" /\ sel = NoSel) =>
          /\ StatedGE(PtjFiltered).total_ge = 83
          /\ ptj.graduate_employability.value = 964

\* The scenario's table rendered by the PTj view: 12 exclusions, GE 96.4.
C1_Witness ==
    /\ df = ScenarioGE /\ page = "fakulti" /\ sel = NoSel
    /\ StatedGE(PtjFiltered).luar_tenaga_buruh = 12
    /\ ptj.graduate_employability.kind = "metric"
    /\ ptj.graduate_employability.value = 964

\* C2: wherever total_ge is 0 - the filtered table of the PTj view, a faculty
\* or a year of the overview - the GE shown is the number 0, and the GE
\* functions end without an error.
C2_GEZeroGuard ==
    /\ (page = "fakulti" /\ ~empty(df)) =>
          /\ ptj.graduate_employability.kind = "metric"
          /\ StatedGE(PtjFiltered).total_ge = 0 => ptj.graduate_employability.value = 0
    /\ (page = "dashboard" /\ ~empty(df)) =>
          /\ dash.graduate_employability_ikut_ptj.kind = "chart"
          /\ \A i \in DOMAIN dash.graduate_employability_ikut_ptj.records :
                LET rec == dash.graduate_employability_ikut_ptj.records[i]
                IN  StatedGE(OfFakulti(DashFiltered, rec.Fakulti)).total_ge = 0 => rec.GE = 0
          /\ dash.kategori_ge.kind = "chart"
          /\ \A i \in DOMAIN dash.kategori_ge.records :
                LET rec == dash.kategori_ge.records[i]
                IN  StatedGE(OfFakulti(DashFiltered, rec.Fakulti)).total_ge = 0 => rec.GE = 0
          /\ dash.ge_gm_keseluruhan.kind = "chart"
          /\ \A i \in DOMAIN dash.ge_gm_keseluruhan.records :
                LET rec == dash.ge_gm_keseluruhan.records[i]
                IN  StatedGE(OfTahun(DashTable, rec.Tahun)).total_ge = 0 => rec.GE = 0
          /\ dash.fakulti_ge_tertinggi.kind \in {"metric", "warning"}
          /\ dash.fakulti_ge_tertinggi.kind = "metric" =>
                (StatedGE(OfFakulti(DashFiltered, dash.fakulti_ge_tertinggi.value)).total_ge = 0
                   => dash.fakulti_ge_tertinggi.delta = 0)
          /\ dash.fakulti_ge_atas_overall.kind \in {"metric", "warning"}
          /\ dash.fakulti_ge_atas_overall.kind = "metric" =>
                (StatedGE(DashFiltered).total_ge = 0 => dash.fakulti_ge_atas_overall.delta = 0)

\* A faculty that has rows, all of them outside the labour force: total_ge
\* is 0 with bekerja = 0, and its GE is shown as 0.
C2_Witness ==
    /\ page = "dashboard"
    /\ dash.graduate_employability_ikut_ptj.kind = "chart"
    /\ \E i \in DOMAIN dash.graduate_employability_ikut_ptj.records :
          LET rec == dash.graduate_employability_ikut_ptj.records[i]
              st  == StatedGE(OfFakulti(DashFiltered, rec.Fakulti))
          IN  st.luar_tenaga_buruh > 0 /\ st.total_ge = 0 /\ rec.GE = 0
    /\ dash.fakulti_ge_tertinggi.kind = "metric"
    /\ dash.fakulti_ge_tertinggi.delta = 0

\* C3: every GM the program shows - the GM card of the PTj view, the GM of
\* each faculty, of each year and study level, and of each year in the
\* overview, the GM of the faculty that fakulti_gm_tertinggi names and the
\* overall GM that fakulti_gm_atas_overall shows - is
\* (responden - belum_bekerja) / responden * 100 (to one decimal) when
\* responden > 0 and 0 otherwise, responden being the rows whose
\* work-status label is present and not "Tiada Maklumat".
C3_GMFormula ==
    /\ (page = "fakulti" /\ ptj.graduate_marketability.kind = "metric") =>
          ptj.graduate_marketability.value = StatedGM(PtjFiltered).GM
    /\ (page = "dashboard" /\ dash.graduate_employability_ikut_ptj.kind = "chart") =>
          \A i \in DOMAIN dash.graduate_employability_ikut_ptj.records :
             LET rec == dash.graduate_employability_ikut_ptj.records[i]
             IN  rec.GM = StatedGM(OfFakulti(DashFiltered, rec.Fakulti)).GM
    /\ (page = "dashboard" /\ dash.table_gm_tahun.kind = "table") =>
          \A k \in DOMAIN dash.table_gm_tahun.gm :
             dash.table_gm_tahun.gm[k] = StatedGM(OfTahunPeringkat(DashTable, k[1], k[2])).GM
    /\ (page = "dashboard" /\ dash.ge_gm_keseluruhan.kind = "chart") =>
          \A i \in DOMAIN dash.ge_gm_keseluruhan.records :
             LET rec == dash.ge_gm_keseluruhan.records[i]
             IN  rec.GM = StatedGM(OfTahun(DashTable, rec.Tahun)).GM
    /\ (page = "dashboard" /\ dash.fakulti_gm_tertinggi.kind = "metric") =>
          dash.fakulti_gm_tertinggi.delta =
             StatedGM(OfFakulti(DashFiltered, dash.fakulti_gm_tertinggi.value)).GM
    /\ (page = "dashboard" /\ dash.fakulti_gm_atas_overall.kind = "metric") =>
          dash.fakulti_gm_atas_overall.delta = StatedGM(DashFiltered).GM

----------------------------------------------------------------------------
(* Response rate                                                           *)

PtjRingkasan == ringkasan_total_df(PtjTable, effective(PtjTable, available_years, sel))

\* The response rate as stated: total is the rows with a participation code,
\* responded the rows with code 1.
StatedKadar(t) ==
    LET total     == CountIf(t, LAMBDA r : r.e_statusPenyertaan /= NaN)
        responded == CountIf(t, LAMBDA r : r.e_statusPenyertaan = <<1>>)
    IN  [total |-> total, responded |-> responded,
         rate |-> IF total > 0 THEN Nearest1(responded, total) ELSE 0]

\* C4 (as stated): every response rate shown - the overall average, the bar
\* of each faculty, the highest and lowest faculty, the rate of each year and
\* the "Responden" card of the PTj view - is responded / total * 100 when
\* total > 0 and 0 otherwise, total counting the rows with a participation
\* code and responded those with code 1; 150 of 200 give 75.0.
C4_ResponseRate ==
    /\ (page = "dashboard" /\ dash.purata_kadar_respons.kind = "metric") =>
          dash.purata_kadar_respons.value = StatedKadar(DashFiltered).rate
    /\ (page = "dashboard" /\ dash.kadar_respons_ikut_ptj.kind = "chart") =>
          \A i \in DOMAIN dash.kadar_respons_ikut_ptj.records :
             LET rec == dash.kadar_respons_ikut_ptj.records[i]
             IN  rec.Kadar = StatedKadar(OfFakulti(DashFiltered, rec.Fakulti)).rate
    /\ (page = "dashboard" /\ dash.fakulti_highest_kadar_respons.kind = "metric") =>
          dash.fakulti_highest_kadar_respons.delta =
             StatedKadar(OfFakulti(DashFiltered, dash.fakulti_highest_kadar_respons.value)).rate
    /\ (page = "dashboard" /\ dash.fakulti_lowest_kadar_respons.kind = "metric") =>
          dash.fakulti_lowest_kadar_respons.delta =
             StatedKadar(OfFakulti(DashFiltered, dash.fakulti_lowest_kadar_respons.value)).rate
    /\ (page = "dashboard" /\ dash.ge_gm_keseluruhan.kind = "chart") =>
          \A i \in DOMAIN dash.ge_gm_keseluruhan.records :
             LET rec == dash.ge_gm_keseluruhan.records[i]
             IN  rec.Kadar = StatedKadar(OfTahun(DashTable, rec.Tahun)).rate
    /\ (page = "fakulti" /\ ptj.peratusan_responden.kind = "metric") =>
          /\ "value" \in DOMAIN ptj.peratusan_responden
          /\ ptj.peratusan_responden.value = StatedKadar(PtjRingkasan).rate
    /\ (df = ScenarioRespons /\ page = "fakulti" /\ sel = NoSel) =>
          ptj.peratusan_responden.value = 750

----------------------------------------------------------------------------
(* Zero denominators and salary bands                                      *)

\* The salary pies and the salary table of the current run, each with the
\* table it bins: the four donuts of the overview, the pie and the table of
\* the PTj view.
SalarySites ==
    (IF page = "dashboard"
     THEN {[counts |-> dash[x[1]].counts,
            rows   |-> Rows(DashFiltered, LAMBDA r : r.e_peringkat_label = <<x[2]>>)] :
             x \in {y \in {<<"donut_phd", "PhD">>, <<"donut_master", "Sarjana">>,
                           <<"donut_degree", "Sarjana Muda">>, <<"donut_diploma", "Diploma">>} :
                      dash[y[1]].kind = "pie"}}
     ELSE {})
    \cup
    (IF page = "fakulti" /\ ptj.gaji_ikut_kumpulan.kind = "pie"
     THEN {[counts |-> ptj.gaji_ikut_kumpulan.counts, rows |-> PtjFiltered]}
     ELSE {})
    \cup
    (IF page = "fakulti" /\ ptj.table_gaji_ikut_kumpulan.kind = "table"
     THEN {[counts |-> [b \in Bands |-> ptj.table_gaji_ikut_kumpulan.rows[b].Bilangan],
            rows   |-> PtjFiltered]}
     ELSE {})

\* C5 (as stated): every rate or percentage of both views is a number, and
\* is 0 when its denominator is 0: the "Responden" card, the premium-salary
\* rate, the salary-band percentage table, the per-category percentage
\* tables, and the per-faculty rates of the overview.
C5_ZeroDenominator ==
    /\ (page = "fakulti" /\ ptj.peratusan_responden.kind = "metric") =>
          /\ "value" \in DOMAIN ptj.peratusan_responden
          /\ CountIf(PtjRingkasan, LAMBDA r : r.e_statusPenyertaan_label /= NaN) = 0
                => ptj.peratusan_responden.value = 0
    /\ (page = "fakulti" /\ ptj.gaji_premium_kumpulan.kind = "metric") =>
          (CountIf(PtjFiltered, LAMBDA r : r.e_44_kumpulan /= NaN /\ r.e_44_kumpulan /= <<-2>>) = 0
             => ptj.gaji_premium_kumpulan.value = 0)
    /\ (page = "fakulti" /\ ptj.table_gaji_ikut_kumpulan.kind = "table") =>
          \A b \in Bands :
             LET row == ptj.table_gaji_ikut_kumpulan.rows[b]
             IN  /\ row.Peratus /= NaN
                 /\ (\A c \in Bands : ptj.table_gaji_ikut_kumpulan.rows[c].Bilangan = 0)
                       => row.Peratus = <<0>>
    /\ (page = "fakulti" /\ ptj.table_sektor_pekerjaan.kind = "table") =>
          \A k \in DOMAIN ptj.table_sektor_pekerjaan.rows :
             ptj.table_sektor_pekerjaan.rows[k].Peratus /= NaN
    /\ (page = "dashboard" /\ dash.kadar_respons_ikut_ptj.kind = "chart") =>
          \A i \in DOMAIN dash.kadar_respons_ikut_ptj.records :
             LET rec == dash.kadar_respons_ikut_ptj.records[i]
             IN  empty(OfFakulti(DashFiltered, rec.Fakulti)) => rec.Kadar = 0
    /\ (page = "dashboard" /\ dash.kemahiran_kerja.kind = "chart") =>
          \A i \in DOMAIN dash.kemahiran_kerja.records :
             LET rec == dash.kemahiran_kerja.records[i]
             IN  empty(OfFakulti(DashFiltered, rec.Fakulti)) =>
                    rec.Mahir = 0 /\ rec.SeparaMahir = 0 /\ rec.Rendah = 0

\* The bands the seven codes of the scenario are stated to fall in.
StatedBand ==
    (1 :> 1) @@ (4 :> 1) @@ (5 :> 2) @@ (7 :> 2) @@ (8 :> 3) @@ (9 :> 4) @@ (11 :> 4)

\* C6 (as stated): at every place the salary-group code is binned, the codes
\* 1, 4, 5, 7, 8, 9, 11 fall in band 1, 1, 2, 2, 3, 4, 4, and a row whose
\* code is missing or -2 is counted in no band.
C6_SalaryBands ==
    \A site \in SalarySites :
       (\A i \in DOMAIN site.rows.blocks :
           LET c == site.rows.blocks[i].r.e_44_kumpulan
           IN  c = NaN \/ c = <<-2>> \/ c[1] \in DOMAIN StatedBand)
       => \A b \in Bands :
             site.counts[b] =
                CountIf(site.rows, LAMBDA r : /\ r.e_44_kumpulan /= NaN
                                              /\ r.e_44_kumpulan /= <<-2>>
                                              /\ StatedBand[r.e_44_kumpulan[1]] = b)

\* C7 (as stated): every row whose code is neither missing nor -2, the codes
\* 0, 9 and 10 included, is counted by exactly one of the four bands: the
\* four counts sum to the number of such rows.
C7_BandPartition ==
    \A site \in SalarySites :
       site.counts[1] + site.counts[2] + site.counts[3] + site.counts[4] =
          CountIf(site.rows, LAMBDA r : r.e_44_kumpulan /= NaN /\ r.e_44_kumpulan /= <<-2>>)

----------------------------------------------------------------------------
(* Skill levels and the order of the per-faculty tables                    *)

\* C8: per faculty, kemahiran_kerja counts the codes 1, 2, 3 as skilled,
\* 4, 5, 6, 7, 8, 10 as semi-skilled and 9 as low-skilled; a row with code -2
\* or no code is in no class and not in the denominator; each percentage is
\* class count / denominator * 100 (to one decimal), and all three are 0
\* for a faculty whose denominator is 0.
C8_Kemahiran ==
    (page = "dashboard" /\ ~empty(df)) =>
       /\ dash.kemahiran_kerja.kind = "chart"
       /\ \A i \in DOMAIN dash.kemahiran_kerja.records :
             LET rec   == dash.kemahiran_kerja.records[i]
                 f     == OfFakulti(DashFiltered, rec.Fakulti)
                 in(S) == CountIf(f, LAMBDA r : r.e_41_a /= NaN /\ r.e_41_a[1] \in S)
                 den   == CountIf(f, LAMBDA r : r.e_41_a /= NaN /\ r.e_41_a /= <<-2>>)
             IN  IF den = 0
                 THEN rec.Mahir = 0 /\ rec.SeparaMahir = 0 /\ rec.Rendah = 0
                 ELSE /\ rec.Mahir = Nearest1(in({1, 2, 3}), den)
                      /\ rec.SeparaMahir = Nearest1(in({4, 5, 6, 7, 8, 10}), den)
                      /\ rec.Rendah = Nearest1(in({9}), den)

\* A faculty with a row of code -2 next to a low-skilled row, shown as 100%
\* low-skilled, and a faculty with no classified row, shown as 0, 0, 0.
C8_Witness ==
    /\ page = "dashboard"
    /\ dash.kemahiran_kerja.kind = "chart"
    /\ \E i \in DOMAIN dash.kemahiran_kerja.records :
          LET rec == dash.kemahiran_kerja.records[i]
              f   == OfFakulti(DashFiltered, rec.Fakulti)
          IN  /\ CountIf(f, LAMBDA r : r.e_41_a = <<-2>>) > 0
              /\ rec.Rendah = 1000
    /\ \E i \in DOMAIN dash.kemahiran_kerja.records :
          LET rec == dash.kemahiran_kerja.records[i]
              f   == OfFakulti(DashFiltered, rec.Fakulti)
          IN  /\ \A j \in DOMAIN f.blocks : f.blocks[j].r.e_41_a \in {NaN, <<-2>>}
              /\ rec.Mahir = 0 /\ rec.SeparaMahir = 0 /\ rec.Rendah = 0

\* The canonical order as stated.
StatedOrder ==
    << "API", "APM", "FAB", "FBL", "FF", "FK", "EDU", "FOD", "FPE", "FOM",
       "FS", "FSKTM", "FSSS", "FSK", "FSSE", "FUU", "AEI", "IAS", "INPUMA", "UMCCED" >>

Fakultis(out) == [i \in DOMAIN out.records |-> out.records[i].Fakulti]

\* The place of a faculty code in alphabetical order.
AlphaRank(f) == CHOOSE i \in DOMAIN AlphaFakulti : AlphaFakulti[i] = f

\* The category stated for a number of graduates.
StatedKategori(n) == IF n < 200 THEN 1 ELSE IF n <= 700 THEN 2 ELSE 3

\* A per-faculty table, when the run shows it, is in the canonical order.
Canonical(out) == out.kind = "chart" => Fakultis(out) = StatedOrder

\* C9 (as stated): each of the four per-faculty tables of the overview lists
\* the 20 canonical codes once each in the canonical order.
C9_CanonicalOrder ==
    page = "dashboard" =>
       /\ Canonical(dash.graduate_employability_ikut_ptj)
       /\ Canonical(dash.kadar_respons_ikut_ptj)
       /\ Canonical(dash.kemahiran_kerja)
       /\ Canonical(dash.kategori_ge)

\* C9 (amended): GE/GM by faculty, response rate by faculty and skill level
\* by faculty, when shown, list the 20 canonical codes once each in the
\* canonical order, whatever the rows; GE by graduate-count category lists
\* the same 20 codes once each, ordered by category and, within a category,
\* alphabetically by code.
C9_OrderAmended ==
    (page = "dashboard" /\ ~empty(df)) =>
       /\ dash.graduate_employability_ikut_ptj.kind = "chart"
       /\ Canonical(dash.graduate_employability_ikut_ptj)
       /\ Canonical(dash.kadar_respons_ikut_ptj)
       /\ Canonical(dash.kemahiran_kerja)
       /\ dash.kategori_ge.kind = "chart"
       /\ LET recs == dash.kategori_ge.records
              kat(i) == StatedKategori(shape0(OfFakulti(DashFiltered, recs[i].Fakulti)))
          IN  /\ Len(recs) = 20
              /\ Range(Fakultis(dash.kategori_ge)) = Range(StatedOrder)
              /\ \A i, j \in DOMAIN recs :
                    i < j => \/ kat(i) < kat(j)
                             \/ /\ kat(i) = kat(j)
                                /\ AlphaRank(recs[i].Fakulti) < AlphaRank(recs[j].Fakulti)

\* A run in which the category table holds faculties of two categories and
\* starts with another code than the canonical list does.
C9_Witness ==
    /\ page = "dashboard"
    /\ dash.kategori_ge.kind = "chart"
    /\ dash.graduate_employability_ikut_ptj.kind = "chart"
    /\ \E i, j \in DOMAIN dash.kategori_ge.records :
          dash.kategori_ge.records[i].Kategori /= dash.kategori_ge.records[j].Kategori
    /\ dash.kategori_ge.records[1].Fakulti /= StatedOrder[1]
    /\ Fakultis(dash.graduate_employability_ikut_ptj) = StatedOrder
    /\ dash.kemahiran_kerja.kind = "chart"
    /\ Fakultis(dash.kemahiran_kerja) = StatedOrder

----------------------------------------------------------------------------
(* Filters                                                                 *)

\* The rows the PTj view keeps under a selection.
PtjRows(s) == filtered_df(PtjTable, effective(PtjTable, available_years, s))

\* The rows the overview keeps under a selection.
DashRows(years, warganegara) ==
    df_filtered_year(DashTable, available_years, years, warganegara)

\* Table a holds exactly the rows of tables b and c, which share none.
IsUnion(a, b, c) ==
    /\ Range(a.blocks) = Range(b.blocks) \cup Range(c.blocks)
    /\ shape0(a) = shape0(b) + shape0(c)

\* C10: in each filter dimension an empty selection keeps the same rows as
\* the explicit selection of all the values the dimension offers and, for
\* the year, of all the distinct year tags of the unified table, the other
\* selections unchanged; "Semua" keeps the rows that the two citizenship
\* labels keep between them.
C10_FilterIdentity ==
    /\ page = "fakulti" =>
          /\ sel.years = {} =>
                /\ PtjRows([sel EXCEPT !.years = Range(available_years)]) = PtjFiltered
                /\ Range(unique(df, "SKPG_Tahun")) /= {} =>
                      PtjRows([sel EXCEPT !.years = Range(unique(df, "SKPG_Tahun"))]) = PtjFiltered
          /\ (sel.fakultis = {} /\ fakulti_list(PtjTable, sel.years) /= {}) =>
                PtjRows([sel EXCEPT !.fakultis = fakulti_list(PtjTable, sel.years)]) = PtjFiltered
          /\ (sel.peringkat = {}
                /\ peringkat_pengajian_list(PtjTable, sel.years, sel.fakultis) /= {}) =>
                PtjRows([sel EXCEPT !.peringkat =
                           peringkat_pengajian_list(PtjTable, sel.years, sel.fakultis)]) = PtjFiltered
          /\ (sel.programs = {}
                /\ program_list(PtjTable, sel.years, sel.fakultis, sel.peringkat) /= {}) =>
                PtjRows([sel EXCEPT !.programs =
                           program_list(PtjTable, sel.years, sel.fakultis, sel.peringkat)]) = PtjFiltered
          /\ sel.warganegara = "Semua" =>
                IsUnion(PtjFiltered,
                        PtjRows([sel EXCEPT !.warganegara = warganegara_label_list[1]]),
                        PtjRows([sel EXCEPT !.warganegara = warganegara_label_list[2]]))
    /\ page = "dashboard" =>
          /\ sel.years = {} =>
                /\ DashRows(Range(available_years), sel.warganegara) = DashFiltered
                /\ Range(unique(df, "SKPG_Tahun")) /= {} =>
                      DashRows(Range(unique(df, "SKPG_Tahun")), sel.warganegara) = DashFiltered
          /\ sel.warganegara = "Semua" =>
                IsUnion(DashFiltered,
                        DashRows(sel.years, warganegara_label_list[1]),
                        DashRows(sel.years, warganegara_label_list[2]))

\* C11: with nothing selected in any dimension (no year, faculty, study level
\* or program, citizenship "Semua") the table the metrics are computed from
\* holds every row of the unified table, the rows with a missing faculty,
\* study-level label, program or citizenship label included.
C11_EmptySelectionKeepsAll ==
    /\ (page = "fakulti" /\ sel = NoSel) => PtjFiltered = PtjTable
    /\ (page = "dashboard" /\ sel = NoSel) => DashFiltered = DashTable

\* C12: every metric of a view is computed from the rows that pass every
\* active filter of the view and from no other row: the total-graduates and
\* response-percentage cards of the PTj view are those of the rows passing the
\* year, faculty, study-level, program and citizenship filters, and the
\* per-year GE, GM and response rate of ge_gm_keseluruhan are those of the
\* rows passing the overview's year and citizenship filters.
C12_MetricsFromFilteredRows ==
    /\ page = "fakulti" =>
          /\ ptj.jumlah_keseluruhan_graduan = jumlah_keseluruhan_graduan(PtjFiltered)
          /\ ptj.peratusan_responden = peratusan_responden(PtjFiltered)
    /\ (page = "dashboard" /\ dash.ge_gm_keseluruhan.kind = "chart") =>
          dash.ge_gm_keseluruhan = ge_gm_keseluruhan(DashFiltered, DashFiltered)

----------------------------------------------------------------------------
(* Ingestion                                                               *)

\* The years of the spreadsheets discovered in the data folder.
Discovered == Range(files.listdir)

\* The year tags of the unified table.
YearTags == Range(unique(df, "SKPG_Tahun"))

\* C13: after the load every discovered year has its rows in the unified
\* table, whichever conversions failed: the year tags of the table are the
\* discovered years.
C13_EveryYearLoaded == page /= "none" => YearTags = Discovered

\* A step that is a script run: the spreadsheets are as they were.
IsRun == files'.xlsx = files.xlsx /\ files'.clock = files.clock

\* The cache file of year y is missing or older than its spreadsheet.
Stale(fs, y) == ~fs.parquet[y].exists \/ fs.parquet[y].mtime < fs.xlsx[y].mtime

\* C14: in a run with the converter available, the cache file of a discovered
\* year whose spreadsheet converts is written anew exactly when it is missing
\* or its modification time is older than the spreadsheet's, and is left
\* untouched otherwise; and when no conversion fails, every discovered year
\* then has a cache file that exists, is newer than its spreadsheet, holds
\* what the spreadsheet holds and is offered.
C14_CacheRegeneration ==
    [][ (IsRun /\ DUCKDB_AVAILABLE) =>
          /\ \A y \in Discovered :
                /\ (files.xlsx[y].ok /\ Stale(files, y)) =>
                      /\ files'.parquet[y].exists
                      /\ files'.parquet[y].mtime = files.clock
                      /\ files'.parquet[y].data = files.xlsx[y].data
                /\ ~Stale(files, y) => files'.parquet[y] = files.parquet[y]
          /\ (\A y \in Discovered : Stale(files, y) => files.xlsx[y].ok) =>
                \A y \in Discovered :
                   /\ files'.parquet[y].exists
                   /\ files'.parquet[y].mtime > files'.xlsx[y].mtime
                   /\ y \in Range(available_years') ]_vars

\* C15: a run over a data folder with no spreadsheet ends as "no data": the
\* unified table is empty, no year is offered, the notice is shown, and no
\* call of the page's layout runs, so none raises.
C15_NoData ==
    (page /= "none" /\ Discovered = {}) =>
        /\ shape0(df) = 0
        /\ available_years = <<>>
        /\ page = "dashboard" =>
              /\ "st_stop" \in DOMAIN dash /\ dash.st_stop.kind = "warning"
              /\ \A name \in Range(DashCalls) : dash[name].kind = "not run"
        /\ page = "fakulti" =>
              /\ "st_stop" \in DOMAIN ptj /\ ptj.st_stop.kind = "warning"
              /\ \A name \in Range(PtjCalls) : ptj[name].kind = "not run"

\* The overview has run over a folder with no spreadsheet, the converter
\* being available.
C15_Witness ==
    /\ page = "dashboard" /\ Discovered = {} /\ DUCKDB_AVAILABLE
    /\ "st_stop" \in DOMAIN dash

----------------------------------------------------------------------------
(* Label derivation                                                        *)

\* The label columns of a table, row by row.
LabelsOf(t) ==
    [i \in DOMAIN t.blocks |->
       [c \in {c \in t.cols : c \notin RawCols} |-> t.blocks[i].r[c]]]

\* C16: deriving the labels of the already labelled table of a view once
\* more gives the same label columns row by row, and so does the whole
\* normalization (title-casing, then derivation).
C16_LabelsIdempotent ==
    /\ LabelsOf(WithLabels(DashTable, DashLabels)) = LabelsOf(DashTable)
    /\ LabelsOf(WithLabels(PtjTable, PtjLabels)) = LabelsOf(PtjTable)
    /\ LabelsOf(dash_df(DashTable)) = LabelsOf(DashTable)
    /\ LabelsOf(ptj_df(PtjTable)) = LabelsOf(PtjTable)

\* The overview has run on a table with a mapped participation code, an
\* unmapped one, and a work-status label in every row.
C16_Witness ==
    /\ page = "dashboard"
    /\ \E i, j \in DOMAIN DashTable.blocks :
          /\ DashTable.blocks[i].r.e_statusPenyertaan_label = <<"Sertai">>
          /\ DashTable.blocks[j].r.e_statusPenyertaan = <<-2>>
          /\ DashTable.blocks[j].r.e_statusPenyertaan_label = NaN
          /\ DashTable.blocks[j].r.e_status_label = <<"Bekerja">>

\* The label columns each view derives, with the raw column of each.
RawOf ==
    [e_warganegara_label |-> "e_warganegara", e_status_label |-> "e_status",
     e_statusPenyertaan_label |-> "e_statusPenyertaan", e_54_label |-> "e_54",
     e_peringkat_label |-> "e_peringkat", e_fakulti_label |-> "e_fakulti",
     e_45_label |-> "e_45", e_50_b_label |-> "e_50_b",
     e_44_kumpulan_label |-> "e_44_kumpulan", e_40_label |-> "e_40",
     e_43_label |-> "e_43", e_41_a_label |-> "e_41_a"]

\* In table t the label column of every absent raw column is omitted or
\* missing in every row.
AbsentUnlabelled(t) ==
    \A c \in DOMAIN RawOf :
       (RawOf[c] \notin df.cols /\ c \in t.cols) =>
           \A i \in DOMAIN t.blocks : t.blocks[i].r[c] = NaN

\* C17: in both views the normalization of a table that lacks optional raw
\* code columns completes, and the label column of an absent raw column is
\* omitted or entirely missing.
C17_MissingColumnsTolerated ==
    /\ (page = "dashboard" /\ ~empty(df)) =>
          /\ "st_stop" \notin DOMAIN dash
          /\ AbsentUnlabelled(DashTable)
    /\ (page = "fakulti" /\ ~empty(df)) =>
          /\ "label_derivation" \notin DOMAIN ptj
          /\ AbsentUnlabelled(PtjTable)

\* The lookup table of each label column, per view.
DashMaps ==
    [e_warganegara_label |-> warganegara_map, e_status_label |-> status_kerja_map,
     e_statusPenyertaan_label |-> status_penyertaan_map,
     e_54_label |-> sebab_tidak_bekerja_map, e_peringkat_label |-> peringkat_pengajian_map,
     e_fakulti_label |-> fakulti_map, e_45_label |-> sektor_pekerjaan_map,
     e_50_b_label |-> bekerja_dalam_bidang_map, e_44_kumpulan_label |-> gaji_kumpulan,
     e_40_label |-> status_pekerjaan_map, e_43_label |-> taraf_pekerjaan_map]

PtjMaps ==
    [e_warganegara_label |-> warganegara_map, e_status_label |-> ptj_status_kerja_map,
     e_statusPenyertaan_label |-> status_penyertaan_map,
     e_54_label |-> sebab_tidak_bekerja_map, e_peringkat_label |-> peringkat_pengajian_map,
     e_fakulti_label |-> fakulti_map, e_45_label |-> sektor_pekerjaan_map,
     e_50_b_label |-> bekerja_dalam_bidang_map,
     e_40_label |-> status_pekerjaan_map, e_43_label |-> ptj_taraf_pekerjaan_map,
     e_41_a_label |-> kumpulan_pekerjaan_map]

\* The label as stated: the entry of the row's code, written as the keys of
\* the tables write it, when the table has one, and missing otherwise.
StatedLabel(m, col, c) ==
    IF c = NaN THEN NaN
    ELSE LET key == IF col \in StrCols THEN c[1] ELSE ToString(c[1])
         IN  IF key \in DOMAIN m THEN <<m[key]>> ELSE NaN

LabelsAsStated(t, maps) ==
    \A c \in DOMAIN maps : \A i \in DOMAIN t.blocks :
       t.blocks[i].r[c] = StatedLabel(maps[c], RawOf[c], t.blocks[i].r[RawOf[c]])

\* The rows of a table that have a work-status label.
Labelled(t) == Rows(t, LAMBDA r : r.e_status_label /= NaN)

\* C18: every label is the lookup table's entry for the row's code when the
\* code is a key of the table and is missing otherwise, no derivation raises,
\* and the rows without a work-status label count in neither part of a GE or
\* GM: the overall GE and GM and the highest faculty GM of the overview are
\* those of the labelled rows.
C18_UnmappedCodes ==
    /\ (page = "dashboard" /\ ~empty(df)) =>
          /\ LabelsAsStated(DashTable, DashMaps)
          /\ dash.fakulti_ge_atas_overall.kind = "metric" =>
                dash.fakulti_ge_atas_overall.delta = StatedGE(Labelled(DashFiltered)).GE
          /\ dash.fakulti_gm_atas_overall.kind = "metric" =>
                dash.fakulti_gm_atas_overall.delta = StatedGM(Labelled(DashFiltered)).GM
          /\ dash.fakulti_gm_tertinggi.kind = "metric" =>
                dash.fakulti_gm_tertinggi.delta =
                   StatedGM(Labelled(OfFakulti(DashFiltered, dash.fakulti_gm_tertinggi.value))).GM
    /\ (page = "fakulti" /\ ~empty(df)) =>
          /\ "label_derivation" \notin DOMAIN ptj
          /\ LabelsAsStated(PtjTable, PtjMaps)

----------------------------------------------------------------------------
(* Column checks of the metric functions                                   *)

\* The columns each named metric function reads from the filtered table.
Reads ==
    [kemahiran_kerja         |-> {"e_41_a"},
     fakulti_ge_tertinggi    |-> {"e_status", "e_54"},
     fakulti_ge_atas_overall |-> {"e_status", "e_54"}]

Raises(out) == out.kind \in {"KeyError", "ValueError"}

\* C19: every metric function checks the columns it reads before computing:
\* with a required column absent from the table it shows a warning and no
\* metric, and no metric function of a run ever raises.
C19_ColumnsChecked ==
    /\ \A name \in DOMAIN dash : ~Raises(dash[name])
    /\ \A name \in DOMAIN ptj : ~Raises(ptj[name])
    /\ page = "dashboard" /\ ~empty(df) =>
         \A name \in DOMAIN Reads :
            ~(Reads[name] \subseteq df.cols) => dash[name] = Warning

----------------------------------------------------------------------------
(* Rounding of percentages                                                 *)

\* The share n / total * 100 rounded once to one decimal, in hundredths.
StatedPeratus(n, total) == 10 * Nearest1(n, total)

\* C20: every percentage shown is the exact ratio * 100 rounded once to
\* exactly one decimal place: the GE of each faculty in the overview chart,
\* and the share of each salary band in the table of the PTj view.
C20_OneDecimalOnce ==
    /\ (page = "dashboard" /\ dash.graduate_employability_ikut_ptj.kind = "chart") =>
          \A i \in DOMAIN dash.graduate_employability_ikut_ptj.records :
             LET rec == dash.graduate_employability_ikut_ptj.records[i]
                 s   == StatedGE(OfFakulti(DashFiltered, rec.Fakulti))
             IN  s.total_ge > 0 => rec.GE = s.GE
    /\ (page = "fakulti" /\ ptj.table_gaji_ikut_kumpulan.kind = "table") =>
          LET rows  == ptj.table_gaji_ikut_kumpulan.rows
              total == rows[1].Bilangan + rows[2].Bilangan + rows[3].Bilangan + rows[4].Bilangan
          IN  \A b \in Bands :
                 total > 0 => rows[b].Peratus = <<StatedPeratus(rows[b].Bilangan, total)>>

----------------------------------------------------------------------------
(* Option lists of the PTj filters                                         *)

\* The option lists the multiselects of the current PTj run offered.
PtjOptions ==
    [peringkat |-> peringkat_pengajian_list(PtjTable, sel.years, sel.fakultis),
     programs  |-> program_list(PtjTable, sel.years, sel.fakultis, sel.peringkat)]

\* A row passes a selection when nothing is selected or its value is selected.
Passes(c, selected) == selected = {} \/ (c /= NaN /\ c[1] \in selected)

\* The distinct values of a column over the rows left by the filters to its
\* left, as stated.
StatedOptions(col, upto) ==
    LET left == Rows(PtjTable, LAMBDA r :
                   /\ Passes(r.SKPG_Tahun, sel.years)
                   /\ Passes(r.e_fakulti, sel.fakultis)
                   /\ (upto = "peringkat" => Passes(r.e_peringkat_label, sel.peringkat)))
    IN  Range(unique(left, col))

\* C21: in the PTj view the study-level options are the distinct level
\* labels of the rows passing the year and the faculty selection, and the
\* program options the distinct programs of the rows passing year, faculty
\* and study level.
C21_CascadingOptions ==
    (page = "fakulti" /\ "label_derivation" \notin DOMAIN ptj /\ "st_stop" \notin DOMAIN ptj) =>
       /\ PtjOptions.peringkat = StatedOptions("e_peringkat_label", "fakulti")
       /\ PtjOptions.programs  = StatedOptions("e_program", "peringkat")

----------------------------------------------------------------------------
(* Lifecycle of the unified table                                          *)

\* The table a pass builds when it reads the files of the folder anew.
ReadAnew(fs) == load(fs, NoMemo).df

\* C22: across the passes of a session the unified table a pass uses is the
\* one the files of the folder give at that pass: after a spreadsheet is
\* modified and the pass has regenerated its cache file, the table holds the
\* modified contents (and so a pass over unchanged files has the table of
\* the pass before it).
C22_RebuiltWhenSourceNewer ==
    [][ IsRun => df' = ReadAnew(files) ]_vars

----------------------------------------------------------------------------
(* Year tags                                                               *)

\* The year tag of a source row as stated: its own year value when it has
\* one, the year of the file name when the value is absent or missing.
StatedTahun(data, year, c) == IF c = NaN THEN <<year>> ELSE <<ToString(c[1])>>

\* The years of set S in the order the folder lists them.
Listed(S) == SelectSeq(files.listdir, LAMBDA y : y \in S)

\* The unified table of the files of the years of S read from the cache
\* files or from the spreadsheets, every row tagged as stated.
StatedUnified(S, kind) ==
    concat([i \in DOMAIN Listed(S) |->
              Tagged(IF kind = "parquet" THEN files.parquet[Listed(S)[i]].data
                     ELSE files.xlsx[Listed(S)[i]].data,
                     Listed(S)[i], StatedTahun)])

\* C23: after the load by either loader every row of the unified table has
\* a year tag; a row keeps the year value its source row has and gets the
\* year of the file name only when it has none, whichever loader read it.
C23_YearTagged ==
    page /= "none" =>
       /\ \A i \in DOMAIN df.blocks : df.blocks[i].r.SKPG_Tahun /= NaN
       /\ \E S \in SUBSET Discovered, kind \in {"parquet", "xlsx"} :
             df = StatedUnified(S, kind)

----------------------------------------------------------------------------
(* Preparation of the loaded table                                         *)

\* The raw source columns of a table, block by block.
RawBlocks(t) ==
    [i \in DOMAIN t.blocks |->
       [r |-> [c \in RawCols \cap df.cols |-> t.blocks[i].r[c]], n |-> t.blocks[i].n]]

\* Table v is table df with label columns added, and table f a selection of
\* its rows: no raw column is gone and no raw value differs.
OnlyAdds(v, f) ==
    /\ df.cols \subseteq v.cols
    /\ df.cols \subseteq f.cols
    /\ RawBlocks(v) = RawBlocks(df)
    /\ \A i \in DOMAIN f.blocks :
          \E j \in DOMAIN df.blocks : RawBlocks(f)[i].r = RawBlocks(df)[j].r

\* C24: from the loaded table to the filtered view the preparation only adds
\* label columns: no raw column is removed, no raw value (the faculty name
\* and the raw codes included) is changed, and filtering only selects rows.
C24_PreparationOnlyAdds ==
    /\ (page = "dashboard" /\ "st_stop" \notin DOMAIN dash) => OnlyAdds(DashTable, DashFiltered)
    /\ (page = "fakulti" /\ "st_stop" \notin DOMAIN ptj /\ "label_derivation" \notin DOMAIN ptj)
          => OnlyAdds(PtjTable, PtjFiltered)

----------------------------------------------------------------------------
(* Faculties above the overall value                                       *)

\* a / b > c / d for the stated rates, a rate with no denominator being 0.
Exceeds(a, b, c, d) ==
    LET n1 == IF b > 0 THEN a ELSE 0
        d1 == IF b > 0 THEN b ELSE 1
        n2 == IF d > 0 THEN c ELSE 0
        d2 == IF d > 0 THEN d ELSE 1
    IN  n1 * d2 > n2 * d1

\* The faculties of table t that have rows.
FakultiOf(t) == Range(unique(t, "e_fakulti_label"))

\* The faculties whose GM (GE), by the stated formula, is strictly greater
\* than that of the whole table.
StatedAboveGM(t) ==
    {f \in FakultiOf(t) :
       LET a == StatedGM(OfFakulti(t, f))
           o == StatedGM(t)
       IN  Exceeds(a.responden - a.belum_bekerja, a.responden,
                   o.responden - o.belum_bekerja, o.responden)}

StatedAboveGE(t) ==
    {f \in FakultiOf(t) :
       LET a == StatedGE(OfFakulti(t, f))
           o == StatedGE(t)
       IN  Exceeds(a.bekerja, a.total_ge, o.bekerja, o.total_ge)}

\* C25: fakulti_gm_atas_overall and fakulti_ge_atas_overall show the number
\* of faculties whose value is strictly greater than the value of the whole
\* filtered table by the same formula; a faculty at the overall value is
\* not counted.
C25_CountAboveOverall ==
    /\ (page = "dashboard" /\ dash.fakulti_gm_atas_overall.kind = "metric") =>
          dash.fakulti_gm_atas_overall.value = Cardinality(StatedAboveGM(DashFiltered))
    /\ (page = "dashboard" /\ dash.fakulti_ge_atas_overall.kind = "metric") =>
          dash.fakulti_ge_atas_overall.value = Cardinality(StatedAboveGE(DashFiltered))

----------------------------------------------------------------------------
(* Ties in the extremum lookups                                            *)

\* The per-faculty values of the current overview run, as each lookup
\* computes them.
ValidFiltered == Rows(DashFiltered, LAMBDA r : ne(r.e_status_label, "Tiada Maklumat"))
GmRecs    == gm_per_faculty(ValidFiltered)
GeRecs    == ge_records(DashFiltered)
KadarRecs == kadar_records(DashFiltered)

\* The faculties holding the largest (smallest) value of a list of records.
TopOf(recs) ==
    {recs[i].f : i \in {i \in DOMAIN recs : \A j \in DOMAIN recs : ~gt(recs[j].v, recs[i].v)}}
BottomOf(recs) ==
    {recs[i].f : i \in {i \in DOMAIN recs : \A j \in DOMAIN recs : ~gt(recs[i].v, recs[j].v)}}

\* Of a set of faculties, the one whose rows come first in the filtered
\* table, and the one first in alphabetical order of the codes.
FirstSeen(S) ==
    LET u == unique(DashFiltered, "e_fakulti_label")
    IN  u[CHOOSE i \in DOMAIN u : u[i] \in S /\ \A j \in 1 .. i - 1 : u[j] \notin S]
AlphaFirst(S) == CHOOSE f \in S : \A g \in S : AlphaRank(f) <= AlphaRank(g)

Shown(name) == page = "dashboard" /\ dash[name].kind = "metric"

\* C26 (as stated): in each extremum lookup, of the faculties that share
\* the extreme value the one reported is the first encountered in the
\* table, not the first in alphabetical order of the codes.
C26_TieFirstEncountered ==
    /\ Shown("fakulti_highest_kadar_respons") =>
          dash.fakulti_highest_kadar_respons.value = FirstSeen(TopOf(KadarRecs))
    /\ Shown("fakulti_lowest_kadar_respons") =>
          dash.fakulti_lowest_kadar_respons.value = FirstSeen(BottomOf(KadarRecs))
    /\ Shown("fakulti_ge_tertinggi") =>
          dash.fakulti_ge_tertinggi.value = FirstSeen(TopOf(GeRecs))
    /\ Shown("fakulti_gm_tertinggi") =>
          dash.fakulti_gm_tertinggi.value = FirstSeen(TopOf(GmRecs))

\* C26 (amended): of the faculties that share the extreme value, the
\* lookups of the response rate and of GM report the first in alphabetical
\* order of the codes, and the lookup of GE the first encountered in the
\* table.
C26_TieAmended ==
    /\ Shown("fakulti_highest_kadar_respons") =>
          dash.fakulti_highest_kadar_respons.value = AlphaFirst(TopOf(KadarRecs))
    /\ Shown("fakulti_lowest_kadar_respons") =>
          dash.fakulti_lowest_kadar_respons.value = AlphaFirst(BottomOf(KadarRecs))
    /\ Shown("fakulti_ge_tertinggi") =>
          dash.fakulti_ge_tertinggi.value = FirstSeen(TopOf(GeRecs))
    /\ Shown("fakulti_gm_tertinggi") =>
          dash.fakulti_gm_tertinggi.value = AlphaFirst(TopOf(GmRecs))

\* Two faculties share the highest response rate, GE and GM, and the one
\* whose rows come first is the second in alphabetical order.
C26_Witness ==
    /\ Shown("fakulti_highest_kadar_respons") /\ Shown("fakulti_ge_tertinggi")
    /\ Shown("fakulti_gm_tertinggi")
    /\ TopOf(KadarRecs) = {"API", "FS"} /\ TopOf(GeRecs) = {"API", "FS"}
    /\ TopOf(GmRecs) = {"API", "FS"}
    /\ FirstSeen({"API", "FS"}) = "FS"
    /\ dash.fakulti_highest_kadar_respons.value = "API"
    /\ dash.fakulti_ge_tertinggi.value = "FS"

----------------------------------------------------------------------------
(* Range of the rates                                                      *)

\* A rate in tenths of a percent between 0 and 100.
InRange(x) == x \in 0 .. 1000

\* The filtered table of the current run and its slice of each faculty.
SlicesOfRun ==
    IF page = "dashboard"
    THEN {DashFiltered} \cup {OfFakulti(DashFiltered, f) : f \in Range(all_fakulti)}
    ELSE IF page = "fakulti" /\ ptj.graduate_employability.kind = "metric"
    THEN {PtjFiltered} ELSE {}

\* C27: every GE, GM and response rate shown lies between 0 and 100, and in
\* the table of the run and in each faculty's slice of it
\* luar_tenaga_buruh is at most tidak_bekerja, so that total_ge is at least
\* bekerja.
C27_RatesInRange ==
    /\ (page = "dashboard" /\ dash.graduate_employability_ikut_ptj.kind = "chart") =>
          \A i \in DOMAIN dash.graduate_employability_ikut_ptj.records :
             /\ InRange(dash.graduate_employability_ikut_ptj.records[i].GE)
             /\ InRange(dash.graduate_employability_ikut_ptj.records[i].GM)
    /\ (page = "dashboard" /\ dash.kadar_respons_ikut_ptj.kind = "chart") =>
          \A i \in DOMAIN dash.kadar_respons_ikut_ptj.records :
             InRange(dash.kadar_respons_ikut_ptj.records[i].Kadar)
    /\ \A name \in {"fakulti_gm_tertinggi", "fakulti_ge_tertinggi", "fakulti_gm_atas_overall",
                    "fakulti_ge_atas_overall", "fakulti_highest_kadar_respons",
                    "fakulti_lowest_kadar_respons", "target_kadar_respons"} :
          Shown(name) => InRange(dash[name].delta)
    /\ Shown("purata_kadar_respons") => InRange(dash.purata_kadar_respons.value)
    /\ (page = "fakulti" /\ ptj.graduate_employability.kind = "metric") =>
          InRange(ptj.graduate_employability.value)
    /\ (page = "fakulti" /\ ptj.graduate_marketability.kind = "metric") =>
          InRange(ptj.graduate_marketability.value)
    /\ (page = "fakulti" /\ ptj.peratusan_responden.kind = "metric"
          /\ "value" \in DOMAIN ptj.peratusan_responden) =>
          InRange(ptj.peratusan_responden.value)
    /\ \A t \in SlicesOfRun :
          has_cols(t, {"e_status_label", "e_status", "e_54"}) =>
             /\ luar_tenaga_buruh_of(t) <= tidak_bekerja_of(t)
             /\ total_ge_of(t) >= bekerja_of(t)

----------------------------------------------------------------------------
(* Agreement of the GM sites                                               *)

\* Two unrounded percentages are the same number.
SameRate(a, b) == a.num * b.den = b.num * a.den

\* C28: for every faculty, the GM that fakulti_gm_tertinggi and
\* fakulti_gm_atas_overall compare is, before rounding, the GM that
\* graduate_employability_ikut_ptj computes for that faculty, rows with a
\* missing work-status label included.
C28_SameGMPerFaculty ==
    (page = "dashboard" /\ dash.graduate_employability_ikut_ptj.kind = "chart") =>
       \A i \in DOMAIN GmRecs :
          SameRate(GmRecs[i].v, gm_of(fak_df(DashFiltered, GmRecs[i].f)))

----------------------------------------------------------------------------
(* Years offered and years loaded                                          *)

\* The run got past st.stop() to the filters.
ReachedFilters == page /= "none" /\ ~empty(df)

\* C29: in every run that reaches the filters the years offered for
\* selection are the year tags of the loaded table, whichever loader gave
\* it, and so the year filter of an empty selection keeps every loaded row.
C29_YearsOfferedAreLoaded ==
    ReachedFilters =>
       /\ Range(available_years) = YearTags
       /\ \A i \in DOMAIN df.blocks :
             astype_str(df, "SKPG_Tahun", df.blocks[i].r.SKPG_Tahun) \in Range(available_years)

----------------------------------------------------------------------------
(* Independence of the row order                                           *)

\* The tables that hold the rows of table t in another order.
Reordered(t) ==
    LET n == Len(t.blocks)
    IN  {[t EXCEPT !.blocks = [i \in 1 .. n |-> t.blocks[p[i]]]] :
           p \in {q \in [1 .. n -> 1 .. n] : \A i, j \in 1 .. n : q[i] = q[j] => i = j}}

\* C30: the four extremum lookups report the same faculty and the same
\* value for every table that holds the rows of the filtered table in
\* another order.
C30_RowOrderIndependent ==
    \A t \in Reordered(DashFiltered) :
       /\ Shown("fakulti_ge_tertinggi") => fakulti_ge_tertinggi(t) = dash.fakulti_ge_tertinggi
       /\ Shown("fakulti_gm_tertinggi") => fakulti_gm_tertinggi(t) = dash.fakulti_gm_tertinggi
       /\ Shown("fakulti_highest_kadar_respons") =>
             fakulti_highest_kadar_respons(t) = dash.fakulti_highest_kadar_respons
       /\ Shown("fakulti_lowest_kadar_respons") =>
             fakulti_lowest_kadar_respons(t) = dash.fakulti_lowest_kadar_respons

====
